---- MODULE Spec2Model ----
(***************************************************************************)
(* Verification model of the streaming core of the analytics system:      *)
(*   - StreamQueue / MemoryManager / StreamProcessor and WindowManager    *)
(*     (src/core/streaming/processor.ts)                                   *)
(*   - CircularBuffer (src/core/streaming/enhanced-data-streaming.ts)     *)
(*   - LRUCache / StorageManager / MemoryManager                          *)
(*     (src/core/memory/manager.ts)                                        *)
(*   - PatternRecognitionEngine (src/core/analysis/pattern-recognition.ts)*)
(*   - PredictiveEngine (src/core/predictive/engine.ts)                   *)
(*                                                                         *)
(* Each `await` of processBatch is a point where other handlers may run,  *)
(* so a batch is modelled as one step per data point plus a closing step. *)
(* Timing values (Date.now() differences, averageProcessingTime) and the  *)
(* memoryUsage metric are not part of the state.                          *)
(***************************************************************************)
EXTENDS Integers, Sequences, FiniteSets, TLC

VARIABLES
    queue,              \* StreamQueue.queue: the points waiting, oldest first
    isProcessing,       \* StreamProcessor.isProcessing: the run flag
    processingInterval, \* StreamProcessor.processingInterval: TRUE when the timer is set
    metrics,            \* StreamProcessor.metrics: processedCount, errorCount, queueSize
    running,            \* the processBatch invocations that are between two awaits
    lastOp,             \* the operation just executed: inputs, return value, events emitted
    accepted,           \* number of points accepted so far (numbers the arrivals)
    processedLog        \* arrival numbers of the points handed to processDataPoint, in order

VARIABLES
    windows,            \* WindowManager.windows: windowId -> the live array of points
    windowSizes,        \* WindowManager.windowSizes: windowId -> recorded maxSize
    retentionPeriod,    \* WindowManager.retentionPeriod
    now,                \* the reading of Date.now()
    snapshot,           \* what a caller of getWindow holds
    lastPush,           \* the window operation just executed
    arrivals,           \* windowId -> the points pushed since the window was created
    pushed              \* number of addToWindow calls so far (numbers the points)

VARIABLES
    buffer,             \* CircularBuffer.buffer
    head,               \* CircularBuffer.head
    tail,               \* CircularBuffer.tail
    size                \* CircularBuffer.size

VARIABLES
    cache,              \* LRUCache.cache: entries key, value, timestamp in Map order
    storage,            \* StorageManager.storage: entries key, data in Map order
    clock,              \* the reading of Date.now() the memory manager sees
    awaiting,           \* the retrieve invocations waiting at their await
    calls,              \* number of store / retrieve calls and sweeps so far
    lastMem,            \* the memory-manager operation just executed
    written,            \* key -> the payload last stored, when, and the stores to other keys since
    touched,            \* cached key -> clock reading when it was last stored or returned
    recency,            \* the cached keys in the order they were last stored or returned
    persisted,          \* the persisted keys in the order they entered the storage
    storageConfig       \* MemoryManager.storageConfig: the threshold the constructor settled on

VARIABLES
    analysis            \* the analyzeTimeSeries call just settled

VARIABLES
    engine,             \* the analyzePredictive invocation: its promise and what it holds
    forecastRun,        \* the forecast invocation: its promise and its local arrays
    faulty              \* the estimators in which an unexpected exception is raised

VARIABLES
    detection,          \* the call of detect: its series, its scale and what it returned
    correlated,         \* the call of analyzeCorrelation: its two series and its result
    trendCall,          \* the call of analyzeTrend: its trend series and its patterns
    indicator,          \* the call of TrendPredictor.predict: its window and its result
    ensemble            \* a step of the forecast: the estimators' outputs and the prediction

VARIABLES
    retry               \* the withRetry invocation: its locals, its promise and its history

streamVars == <<queue, isProcessing, processingInterval, metrics, running,
                lastOp, accepted, processedLog>>

windowVars == <<windows, windowSizes, retentionPeriod, now, snapshot, lastPush,
                arrivals, pushed>>

ringVars == <<buffer, head, tail, size>>

memVars == <<cache, storage, clock, awaiting, calls, lastMem,
             written, touched, recency, persisted, storageConfig>>

analysisVars == <<analysis>>

predictiveVars == <<engine, forecastRun, faulty>>

numericVars == <<detection, correlated, trendCall, indicator, ensemble>>

retryVars == <<retry>>

vars ==
    <<streamVars, windowVars, ringVars, memVars, analysisVars, predictiveVars, numericVars, retryVars>>

\* what the operations of one component leave alone
otherThanStream ==
    <<windowVars, ringVars, memVars, analysisVars, predictiveVars, numericVars, retryVars>>

otherThanWindows ==
    <<streamVars, memVars, analysisVars, predictiveVars, numericVars, retryVars>>

otherThanMemory ==
    <<streamVars, windowVars, ringVars, analysisVars, predictiveVars, numericVars, retryVars>>

otherThanAnalysis ==
    <<streamVars, windowVars, ringVars, memVars, predictiveVars, numericVars, retryVars>>

otherThanPredictive ==
    <<streamVars, windowVars, ringVars, memVars, analysisVars, numericVars, retryVars>>

otherThanNumeric ==
    <<streamVars, windowVars, ringVars, memVars, analysisVars, predictiveVars, retryVars>>

otherThanRetry ==
    <<streamVars, windowVars, ringVars, memVars, analysisVars, predictiveVars, numericVars>>


-----------------------------------------------------------------------------
(* Bounds of the model *)

\* config.maxQueueSize of the processor modelled
maxQueueSize == 3
\* config.batchSize of the processor modelled
batchSize == 2
\* total number of points the model lets addDataPoint accept
MaxAccept == 4

Min(a, b) == IF a < b THEN a ELSE b

Max(a, b) == IF a > b THEN a ELSE b

-----------------------------------------------------------------------------
(* Data points *)

\* A DataPoint as validateDataPoint sees it: whether typeof timestamp and
\* typeof value are 'number', and the timestamp when it is a number.
PointInputs ==
    { [timestamp |-> 1, tsIsNumber |-> TRUE,  valueIsNumber |-> TRUE],
      [timestamp |-> 0, tsIsNumber |-> TRUE,  valueIsNumber |-> TRUE],
      [timestamp |-> 0, tsIsNumber |-> FALSE, valueIsNumber |-> TRUE],
      [timestamp |-> 1, tsIsNumber |-> TRUE,  valueIsNumber |-> FALSE] }

\* The point submitted as the n-th accepted one
Arrival(p, n) ==
    [id |-> n, timestamp |-> p.timestamp, tsIsNumber |-> p.tsIsNumber,
     valueIsNumber |-> p.valueIsNumber]

validateDataPoint(dataPoint) ==
    /\ dataPoint.tsIsNumber
    /\ dataPoint.valueIsNumber
    /\ dataPoint.timestamp > 0

-----------------------------------------------------------------------------
(* StreamQueue *)

\* enqueue with the bound off by one (> for >=)
enqueueOffByOne(q, item) ==
    IF Len(q) > maxQueueSize
    THEN [queue |-> q, ok |-> FALSE]
    ELSE [queue |-> Append(q, item), ok |-> TRUE]

\* enqueue: the queue after the call and the value returned
enqueue(q, item) ==
    IF Len(q) >= maxQueueSize
    THEN [queue |-> q, ok |-> FALSE]
    ELSE [queue |-> Append(q, item), ok |-> TRUE]

\* dequeueMany taking the newest items (splice at the end of the array)
dequeueManyNewest(q, count) ==
    LET k == Min(Max(count, 0), Len(q))
    IN  [taken |-> SubSeq(q, Len(q) - k + 1, Len(q)),
         queue |-> SubSeq(q, 1, Len(q) - k)]

\* dequeueMany that empties the queue and hands over only the first items
dequeueManyDropsRest(q, count) ==
    LET k == Min(Max(count, 0), Len(q))
    IN  [taken |-> SubSeq(q, 1, k), queue |-> <<>>]

\* dequeueMany: Array.splice(0, count), the removed items and what is left
dequeueMany(q, count) ==
    LET k == Min(Max(count, 0), Len(q))
    IN  [taken |-> SubSeq(q, 1, k), queue |-> SubSeq(q, k + 1, Len(q))]

-----------------------------------------------------------------------------
(* MemoryManager *)

\* new MemoryManager(): maxMemoryUsageMB = 1024
maxMemoryUsage == 1024 * 1024 * 1024

\* The readings of process.memoryUsage().heapUsed the model distinguishes
HeapReadings == {maxMemoryUsage - 1, maxMemoryUsage, maxMemoryUsage + 1}

\* checkMemoryUsage accepting a heap that is exactly at the ceiling
checkMemoryUsageAtCeiling(used) == used <= maxMemoryUsage

checkMemoryUsage(used) == used < maxMemoryUsage

-----------------------------------------------------------------------------
(* StreamProcessor *)

NoResult == [processedCount |-> 0, errors |-> 0, batch |-> <<>>, emitted |-> <<>>]

\* The record of an executed operation
Op(op, ret, events, heap, result) ==
    [op |-> op, ret |-> ret, events |-> events, heap |-> heap, result |-> result]

\* constructor: empty queue, timer not set, run flag clear, counters 0
StreamInit ==
    /\ queue = <<>>
    /\ isProcessing = FALSE
    /\ processingInterval = FALSE
    /\ metrics = [processedCount |-> 0, errorCount |-> 0, queueSize |-> 0]
    /\ running = <<>>
    /\ lastOp = Op("new", "void", <<>>, 0, NoResult)
    /\ accepted = 0
    /\ processedLog = <<>>

\* updateMetrics: metrics.queueSize = queue.size()
updateMetrics(m, q) == [m EXCEPT !.queueSize = Len(q)]

start ==
    /\ processingInterval' = TRUE
    /\ lastOp' = Op("start", "void",
                    IF processingInterval THEN <<>> ELSE <<"started">>, 0, NoResult)
    /\ UNCHANGED <<queue, isProcessing, metrics, running, accepted, processedLog>>
    /\ UNCHANGED otherThanStream

stop ==
    /\ processingInterval' = FALSE
    /\ lastOp' = Op("stop", "void", <<"stopped">>, 0, NoResult)
    /\ UNCHANGED <<queue, isProcessing, metrics, running, accepted, processedLog>>
    /\ UNCHANGED otherThanStream

\* addDataPoint(dataPoint) with heapUsed = used
addDataPoint(p, used) ==
    IF ~checkMemoryUsage(used)
    THEN /\ lastOp' = Op("addDataPoint", "false", <<"memory-warning">>, used, NoResult)
         /\ UNCHANGED <<queue, isProcessing, processingInterval, metrics, running,
                        accepted, processedLog>>
    ELSE LET r == enqueue(queue, Arrival(p, accepted + 1))
         IN  /\ queue' = r.queue
             /\ accepted' = IF r.ok THEN accepted + 1 ELSE accepted
             /\ metrics' = updateMetrics(metrics, r.queue)
             /\ lastOp' = Op("addDataPoint", IF r.ok THEN "true" ELSE "false",
                             IF r.ok THEN <<"metrics-updated">>
                                     ELSE <<"queue-full", "metrics-updated">>,
                             used, NoResult)
             /\ UNCHANGED <<isProcessing, processingInterval, running, processedLog>>

AddDataPoint ==
    /\ accepted < MaxAccept
    /\ \E p \in PointInputs, used \in HeapReadings : addDataPoint(p, used)
    /\ UNCHANGED otherThanStream

clearQueue ==
    /\ queue' = <<>>
    /\ metrics' = updateMetrics(metrics, <<>>)
    /\ lastOp' = Op("clearQueue", "void", <<"metrics-updated", "queue-cleared">>,
                    0, NoResult)
    /\ UNCHANGED <<isProcessing, processingInterval, running, accepted, processedLog>>
    /\ UNCHANGED otherThanStream

(* processBatch.  The function runs from the timer callback up to its first  *)
(* await, and then from each await to the next one.  An invocation between   *)
(* two awaits is a record of `running`:                                      *)
(*   batch    the points dequeued                                            *)
(*   next     index in batch of the point whose processDataPoint is awaited  *)
(*   settled  "ok" / "error": how that processDataPoint call ended           *)
(*   errors   errors.length                                                  *)
(*   emitted  ids of the points emitted as data-processed so far             *)

\* processDataPoint(dataPoint): throws for an invalid point; otherwise emits
\* data-processed, and the throw of a listener leaves through the same path.
processDataPoint(dataPoint, listenerThrows) ==
    IF ~validateDataPoint(dataPoint)
    THEN [settled |-> "error", emitted |-> <<>>]
    ELSE [settled |-> IF listenerThrows THEN "error" ELSE "ok",
          emitted |-> <<dataPoint.id>>]

\* EndBatch without the finally block: a throwing listener leaves the flag set
EndBatchNoFinally(op, batch, errors, emitted, m, q, outcome) ==
    LET result == [processedCount |-> Len(batch), errors |-> errors,
                   batch |-> batch, emitted |-> emitted]
    IN  /\ metrics' = IF outcome = "batch-processed throws" THEN m
                      ELSE updateMetrics(m, q)
        /\ lastOp' = Op(op,
                        IF outcome = "ok" THEN "result" ELSE "rejected",
                        IF outcome = "batch-processed throws"
                        THEN <<"batch-processed">>
                        ELSE <<"batch-processed", "metrics-updated">>,
                        0, result)
        /\ isProcessing' = (outcome # "ok")

\* The tail of processBatch once the loop is over (lines 188-211): the result,
\* batch-processed, updateMetrics, and the finally block.  `outcome` says
\* whether a listener of batch-processed or of metrics-updated throws.
EndBatch(op, batch, errors, emitted, m, q, outcome) ==
    LET result == [processedCount |-> Len(batch), errors |-> errors,
                   batch |-> batch, emitted |-> emitted]
    IN  /\ metrics' = IF outcome = "batch-processed throws" THEN m
                      ELSE updateMetrics(m, q)
        /\ lastOp' = Op(op,
                        IF outcome = "ok" THEN "result" ELSE "rejected",
                        IF outcome = "batch-processed throws"
                        THEN <<"batch-processed">>
                        ELSE <<"batch-processed", "metrics-updated">>,
                        0, result)
        /\ isProcessing' = FALSE

FinishOutcomes == {"ok", "batch-processed throws", "metrics-updated throws"}

\* processBatch past its guard, up to its first await (or to its end, when the
\* batch is empty): lines 171-180
RunBatch ==
    /\ LET d == dequeueMany(queue, batchSize)
       IN  /\ queue' = d.queue
           /\ IF d.taken = <<>>
              THEN /\ \E outcome \in FinishOutcomes :
                        EndBatch("tick", <<>>, 0, <<>>, metrics, d.queue, outcome)
                   /\ UNCHANGED <<running, processedLog>>
              ELSE \E listenerThrows \in BOOLEAN :
                     LET r == processDataPoint(d.taken[1], listenerThrows)
                     IN  /\ isProcessing' = TRUE
                         /\ running' = Append(running,
                                [batch |-> d.taken, next |-> 1, settled |-> r.settled,
                                 errors |-> 0, emitted |-> r.emitted])
                         /\ processedLog' = Append(processedLog, d.taken[1].id)
                         /\ lastOp' = Op("tick", "started",
                                IF r.emitted = <<>> THEN <<>> ELSE <<"data-processed">>,
                                0, NoResult)
                         /\ UNCHANGED metrics
    /\ UNCHANGED <<processingInterval, accepted>>
    /\ UNCHANGED otherThanStream

TickRuns ==
    /\ processingInterval
    /\ ~isProcessing
    /\ RunBatch

\* The timer callback starting a batch although the run flag is set
TickIgnoresFlag ==
    /\ processingInterval
    /\ isProcessing
    /\ RunBatch

\* The timer callback finds the run flag set: lines 163-169
TickSkipped ==
    /\ processingInterval
    /\ isProcessing
    /\ lastOp' = Op("tick", "skipped", <<>>, 0, NoResult)
    /\ UNCHANGED <<queue, isProcessing, processingInterval, metrics, running,
                   accepted, processedLog>>
    /\ UNCHANGED otherThanStream

RemoveAt(s, i) == SubSeq(s, 1, i - 1) \o SubSeq(s, i + 1, Len(s))

\* processBatch resumes after the await of point `next`: lines 181-186, then
\* either the next iteration up to its await, or the end of the batch
Resume(i) ==
    LET inv == running[i]
        m == IF inv.settled = "ok"
             THEN [metrics EXCEPT !.processedCount = @ + 1]
             ELSE [metrics EXCEPT !.errorCount = @ + 1]
        errors == IF inv.settled = "ok" THEN inv.errors ELSE inv.errors + 1
    IN  /\ IF inv.next < Len(inv.batch)
           THEN \E listenerThrows \in BOOLEAN :
                  LET dataPoint == inv.batch[inv.next + 1]
                      r == processDataPoint(dataPoint, listenerThrows)
                  IN  /\ running' = [running EXCEPT ![i] =
                            [batch |-> inv.batch, next |-> inv.next + 1,
                             settled |-> r.settled, errors |-> errors,
                             emitted |-> inv.emitted \o r.emitted]]
                      /\ processedLog' = Append(processedLog, dataPoint.id)
                      /\ metrics' = m
                      /\ lastOp' = Op("processBatch", "awaiting",
                             IF r.emitted = <<>> THEN <<>> ELSE <<"data-processed">>,
                             0, NoResult)
                      /\ UNCHANGED isProcessing
           ELSE /\ \E outcome \in FinishOutcomes :
                     EndBatch("processBatch", inv.batch, errors, inv.emitted, m, queue,
                              outcome)
                /\ running' = RemoveAt(running, i)
                /\ UNCHANGED processedLog
        /\ UNCHANGED <<queue, processingInterval, accepted>>
        /\ UNCHANGED otherThanStream

ProcessBatchResumes == \E i \in 1..Len(running) : Resume(i)

-----------------------------------------------------------------------------
(* WindowManager *)

WindowIds == {"a"}

\* largest maxSize argument the model passes to addToWindow
MaxWindowSize == 2
\* number of addToWindow calls the model makes
MaxPush == 3
\* last reading of Date.now() the model reaches (the first one is 1)
MaxNow == 2

\* new WindowManager(): retentionPeriod = 3600000
DefaultRetention == 3600000
\* new WindowManager(ShortRetention)
ShortRetention == 1

\* An empty Map
EmptyMap == [k \in {} |-> 0]

MapSet(map, k, v) == [x \in DOMAIN map \cup {k} |-> IF x = k THEN v ELSE map[x]]

MapDelete(map, k) == [x \in DOMAIN map \ {k} |-> map[x]]

NoSnapshot == [ref |-> "none", taken |-> <<>>, detached |-> <<>>]

WindowInit ==
    /\ windows = EmptyMap
    /\ windowSizes = EmptyMap
    /\ retentionPeriod \in {DefaultRetention, ShortRetention}
    /\ now = 1
    /\ snapshot = NoSnapshot
    /\ lastPush = [op |-> "new", windowId |-> "none", maxSize |-> 0]
    /\ arrivals = EmptyMap
    /\ pushed = 0

\* lines 273-276: while (window.length > 0 && window[0].timestamp < cutoffTime) shift
RECURSIVE Prune(_, _)
Prune(window, cutoffTime) ==
    IF Len(window) > 0 /\ window[1].timestamp < cutoffTime
    THEN Prune(Tail(window), cutoffTime)
    ELSE window

\* Trim keeping the oldest maxSize points (splice at the end of the array)
TrimNewest(window, maxSize) ==
    IF Len(window) > maxSize
    THEN SubSeq(window, 1, Max(maxSize, 0))
    ELSE window

\* lines 279-281: splice(0, window.length - maxSize) when longer than maxSize
Trim(window, maxSize) ==
    IF Len(window) > maxSize
    THEN SubSeq(window, Min(Len(window) - maxSize, Len(window)) + 1, Len(window))
    ELSE window

\* The array of windowId after addToWindow(windowId, dataPoint, maxSize)
Pushed(window, dataPoint, maxSize, cutoffTime) ==
    Trim(Prune(Append(window, dataPoint), cutoffTime), maxSize)

addToWindow(windowId, dataPoint, maxSize) ==
    LET has == windowId \in DOMAIN windows
        window == IF has THEN windows[windowId] ELSE <<>>
        cutoffTime == now - retentionPeriod
    IN  /\ windows' = MapSet(windows, windowId,
                              Pushed(window, dataPoint, maxSize, cutoffTime))
        /\ windowSizes' = IF has THEN windowSizes
                          ELSE MapSet(windowSizes, windowId, maxSize)
        /\ arrivals' = MapSet(arrivals, windowId,
                IF has
                THEN [points |-> Append(arrivals[windowId].points, dataPoint),
                      sameSize |-> arrivals[windowId].sameSize
                                     /\ maxSize = windowSizes[windowId]]
                ELSE [points |-> <<dataPoint>>, sameSize |-> TRUE])
        /\ lastPush' = [op |-> "addToWindow", windowId |-> windowId,
                        maxSize |-> maxSize]
        /\ UNCHANGED <<retentionPeriod, now, snapshot>>

\* The timestamps of the points pushed at time t: an old one, the current one
PushTimestamps(t) == {0, t}

AddToWindow ==
    /\ pushed < MaxPush
    /\ pushed' = pushed + 1
    /\ \E windowId \in WindowIds, maxSize \in 1..MaxWindowSize,
          timestamp \in PushTimestamps(now) :
          addToWindow(windowId, [timestamp |-> timestamp, value |-> pushed + 1],
                      maxSize)
    /\ UNCHANGED ringVars
    /\ UNCHANGED otherThanWindows

\* getWindow(windowId): the live array when there is one, else a fresh []
getWindow(windowId) ==
    /\ snapshot' = IF windowId \in DOMAIN windows
                   THEN [ref |-> windowId, taken |-> windows[windowId],
                         detached |-> <<>>]
                   ELSE NoSnapshot
    /\ lastPush' = [op |-> "getWindow", windowId |-> windowId, maxSize |-> 0]
    /\ UNCHANGED <<windows, windowSizes, retentionPeriod, now, arrivals, pushed>>

GetWindow ==
    /\ \E windowId \in WindowIds : getWindow(windowId)
    /\ UNCHANGED ringVars
    /\ UNCHANGED otherThanWindows

\* What the holder of the array returned by getWindow reads in it now
SnapshotContents ==
    IF snapshot.ref \in DOMAIN windows THEN windows[snapshot.ref]
    ELSE snapshot.detached

\* clearWindow(windowId): both Map entries go; an array handed out earlier
\* stays with its holder as it is
clearWindow(windowId) ==
    /\ windows' = MapDelete(windows, windowId)
    /\ windowSizes' = MapDelete(windowSizes, windowId)
    /\ arrivals' = MapDelete(arrivals, windowId)
    /\ snapshot' = IF snapshot.ref = windowId /\ windowId \in DOMAIN windows
                   THEN [ref |-> "none", taken |-> snapshot.taken,
                         detached |-> windows[windowId]]
                   ELSE snapshot
    /\ lastPush' = [op |-> "clearWindow", windowId |-> windowId, maxSize |-> 0]
    /\ UNCHANGED <<retentionPeriod, now, pushed>>

ClearWindow ==
    /\ \E windowId \in WindowIds : clearWindow(windowId)
    /\ UNCHANGED ringVars
    /\ UNCHANGED otherThanWindows

\* getWindowMetrics(windowId): size and maxSize
getWindowMetrics(windowId) ==
    [size |-> IF windowId \in DOMAIN windows THEN Len(windows[windowId]) ELSE 0,
     maxSize |-> IF windowId \in DOMAIN windowSizes THEN windowSizes[windowId]
                 ELSE 0]

\* Date.now() moves on
TimePasses ==
    /\ now < MaxNow
    /\ now' = now + 1
    /\ lastPush' = [op |-> "time", windowId |-> "none", maxSize |-> 0]
    /\ UNCHANGED <<windows, windowSizes, retentionPeriod, snapshot, arrivals, pushed>>
    /\ UNCHANGED ringVars
    /\ UNCHANGED otherThanWindows

-----------------------------------------------------------------------------
(* CircularBuffer *)

\* new CircularBuffer(RingCapacity)
RingCapacity == 2

Undefined == 0

\* constructor: new Array(capacity), head = tail = size = 0
RingInit ==
    /\ buffer = [i \in 0..(RingCapacity - 1) |-> Undefined]
    /\ head = 0
    /\ tail = 0
    /\ size = 0

\* buffer.length
getCapacity == Cardinality(DOMAIN buffer)

\* The items held, oldest first: buffer[head], buffer[head + 1], ...
RingContents == [i \in 1..size |-> buffer[(head + i - 1) % getCapacity]]

\* push(item)
push(item) ==
    /\ buffer' = [buffer EXCEPT ![tail] = item]
    /\ tail' = (tail + 1) % getCapacity
    /\ IF size < getCapacity
       THEN size' = size + 1 /\ head' = head
       ELSE head' = (head + 1) % getCapacity /\ size' = size

RingPush ==
    /\ pushed < MaxPush
    /\ pushed' = pushed + 1
    /\ push(pushed + 1)
    /\ lastPush' = [op |-> "push", windowId |-> "none", maxSize |-> 0]
    /\ UNCHANGED <<windows, windowSizes, retentionPeriod, now, snapshot, arrivals>>
    /\ UNCHANGED otherThanWindows

\* pop(): undefined when empty, else the item at head
pop ==
    /\ IF size = 0
       THEN UNCHANGED <<head, size>>
       ELSE head' = (head + 1) % getCapacity /\ size' = size - 1
    /\ UNCHANGED <<buffer, tail>>

RingPop ==
    /\ pop
    /\ lastPush' = [op |-> "pop", windowId |-> "none", maxSize |-> 0]
    /\ UNCHANGED <<windows, windowSizes, retentionPeriod, now, snapshot, arrivals,
                   pushed>>
    /\ UNCHANGED otherThanWindows

\* clear()
clear ==
    /\ head' = 0
    /\ tail' = 0
    /\ size' = 0
    /\ UNCHANGED buffer

RingClear ==
    /\ clear
    /\ lastPush' = [op |-> "clear", windowId |-> "none", maxSize |-> 0]
    /\ UNCHANGED <<windows, windowSizes, retentionPeriod, now, snapshot, arrivals,
                   pushed>>
    /\ UNCHANGED otherThanWindows

-----------------------------------------------------------------------------
(* Memory manager (src/core/memory/manager.ts)                               *)
(*                                                                           *)
(* A JavaScript Map is a sequence of entries in insertion order.  `retrieve` *)
(* runs up to its `await` in one step and from the `await` to its return in  *)
(* a second one; an invocation between the two is a record of `awaiting`.    *)
(* `store` only emits its events after its `await`, so it is one step.       *)
(* stop() only clears the sweep timer: a run with stop() is a run in which   *)
(* no sweep follows, so the timer is not part of the state.  getStats() and  *)
(* the payloads of the events are not part of the state either.              *)

\* cacheConfig.maxSize of the manager modelled
maxCacheSize == 2
\* cacheConfig.ttl of the manager modelled
ttl == 1
\* storageConfig.maxSize of the manager modelled
storageMaxSize == 2
\* storageConfig.persistenceThreshold of the manager modelled
persistenceThreshold == 50
\* last reading of the clock
MaxClock == 2
\* number of store / retrieve calls and cleanup sweeps the model follows
MaxCalls == 3
\* number of retrieve invocations that may be waiting at their await at a time
MaxAwaiting == 1

Keys == {"a", "b", "c"}

\* The value field of a DataPoint handed to store; "null" is what JSON makes
\* of NaN
Payloads == {"1", "NaN"}

\* storageConfig.persistenceThreshold || 100
defaultPersistenceThreshold == 100
\* the largest whole score below the 100 that Math.random() * 100 stays under
maxImportance == 99

\* what Math.random() * 100 may give: around the threshold modelled, and the
\* top of its range
Scores == {persistenceThreshold, persistenceThreshold + 1, maxImportance}

\* the storageConfig arguments of the constructor the model distinguishes: the
\* threshold modelled, none, and 0
ConfiguredThreshold == [persistenceThreshold |-> persistenceThreshold]

NoConfig == [k \in {} |-> 0]

ZeroThreshold == [persistenceThreshold |-> 0]

orDefaultNullish(config, default) ==
    IF "persistenceThreshold" \in DOMAIN config
    THEN config.persistenceThreshold
    ELSE default

\* storageConfig.persistenceThreshold || default: the default stands in for a
\* missing threshold and for 0
orDefault(config, default) ==
    IF "persistenceThreshold" \in DOMAIN config /\ config.persistenceThreshold # 0
    THEN config.persistenceThreshold
    ELSE default

undefined == "undefined"

Has(map, key) == \E i \in 1..Len(map) : map[i].key = key

IndexOf(map, key) == CHOOSE i \in 1..Len(map) : map[i].key = key

KeysOf(map) == {map[i].key : i \in 1..Len(map)}

\* Map.prototype.set: a key already present keeps its place, a new one goes last
mapSet(map, entry) ==
    IF Has(map, entry.key) THEN [map EXCEPT ![IndexOf(map, entry.key)] = entry]
    ELSE Append(map, entry)

\* Map.prototype.delete
mapDelete(map, key) ==
    IF Has(map, key) THEN RemoveAt(map, IndexOf(map, key)) ELSE map

\* JSON.stringify of the point, as the bytes of the Buffer
JSONstringify(value) ==
    CASE value = "1" -> "{value:1}"
      [] value = "NaN" -> "{value:null}"
      [] value = "null" -> "{value:null}"

\* JSON.parse of the bytes
JSONparse(text) ==
    CASE text = "{value:1}" -> "1"
      [] text = "{value:null}" -> "null"

isExpiredLate(timestamp, t) == t - timestamp > ttl + 1

\* LRUCache.isExpired, with t the reading of Date.now()
isExpired(timestamp, t) == t - timestamp > ttl

\* the reduce of LRUCache.evictOldest: index of the entry it ends with, having
\* `oldest` in hand and the entries from i on still to visit
RECURSIVE reduceOldest(_, _, _)
reduceOldest(c, oldest, i) ==
    IF i > Len(c) THEN oldest
    ELSE reduceOldest(c, IF c[oldest].timestamp < c[i].timestamp THEN oldest ELSE i, i + 1)

\* LRUCache.evictOldest: the key it deletes
cacheOldest(c) == c[reduceOldest(c, 1, 2)].key

cacheEvictOldest(c) == mapDelete(c, cacheOldest(c))

cacheSetLate(c, key, value, t) ==
    LET c1 == IF Len(c) > maxCacheSize THEN cacheEvictOldest(c) ELSE c
    IN  mapSet(c1, [key |-> key, value |-> value, timestamp |-> t])

\* LRUCache.set
cacheSet(c, key, value, t) ==
    LET c1 == IF Len(c) >= maxCacheSize THEN cacheEvictOldest(c) ELSE c
    IN  mapSet(c1, [key |-> key, value |-> value, timestamp |-> t])

\* the key a cache.set on c deletes to make room, "none" when it deletes nothing
cacheSetEvicts(c) ==
    LET gone == KeysOf(c) \ KeysOf(cacheSet(c, "none", "1", 0))
    IN  IF gone = {} THEN "none" ELSE CHOOSE key \in gone : TRUE

\* LRUCache.get: the value returned and the cache left behind
cacheGet(c, key, t) ==
    IF ~Has(c, key) THEN [value |-> undefined, cache |-> c]
    ELSE LET entry == c[IndexOf(c, key)]
         IN  IF isExpired(entry.timestamp, t)
             THEN [value |-> undefined, cache |-> mapDelete(c, key)]
             ELSE [value |-> entry.value,
                   cache |-> mapSet(c, [entry EXCEPT !.timestamp = t])]

storageEvictNewest(s) == SubSeq(s, 1, Len(s) - 1)

\* StorageManager.evictOldest: the first key of the Map goes
storageEvictOldest(s) == Tail(s)

\* StorageManager.store; both branches of shouldCompress give
\* Buffer.from(JSON.stringify(data))
storageStore(s, key, data) ==
    LET processedData == JSONstringify(data)
        s1 == IF Len(s) >= storageMaxSize THEN storageEvictOldest(s) ELSE s
    IN  mapSet(s1, [key |-> key, data |-> processedData])

\* the key a storage.store on s deletes to make room, "none" when it deletes
\* nothing
storageStoreEvicts(s) ==
    LET gone == KeysOf(s) \ KeysOf(storageStore(s, "none", "1"))
    IN  IF gone = {} THEN "none" ELSE CHOOSE key \in gone : TRUE

storageRetrieveNothing(s, key) == undefined

\* StorageManager.retrieve
storageRetrieve(s, key) ==
    IF ~Has(s, key) THEN undefined ELSE JSONparse(s[IndexOf(s, key)].data)

shouldPersistAtThreshold(importanceScore) ==
    importanceScore >= storageConfig.persistenceThreshold

\* MemoryManager.shouldPersist, given what calculateImportance returned
shouldPersist(importanceScore) ==
    importanceScore > storageConfig.persistenceThreshold

\* The store, retrieve or cleanup step last executed.  step is "call" for the
\* part of an operation up to its await or return and "resume" for the part
\* after the await; ret is "awaiting" while the promise is pending; evicted /
\* storageEvicted name the key the step deleted from the tier to make room;
\* expired tells that cache.get found the entry expired and deleted it.
Mem(op, step, key, data, score, ret, events, evicted, storageEvicted) ==
    [op |-> op, step |-> step, key |-> key, data |-> data, score |-> score,
     ret |-> ret, events |-> events, evicted |-> evicted,
     storageEvicted |-> storageEvicted, expired |-> FALSE]

\* the key moved to the most recent end of the touch order
Touch(r, key) == SelectSeq(r, LAMBDA k : k # key) \o <<key>>

\* the touch times and the touch order of the keys still cached in c
TouchedIn(c, t) == [k \in DOMAIN t \cap KeysOf(c) |-> t[k]]

RecencyIn(c, r) == SelectSeq(r, LAMBDA k : k \in KeysOf(c))

\* the insertion order of the persisted keys once key was persisted and the
\* key `gone` left the storage: a key still there keeps its place
Persisted(order, key, gone) ==
    LET kept == SelectSeq(order, LAMBDA k : k # gone)
    IN  IF \E i \in 1..Len(kept) : kept[i] = key THEN kept ELSE Append(kept, key)

\* the manager after its constructor, given the storageConfig argument: both
\* tiers empty, the threshold settled
MemoryConstructed(config) ==
    /\ storageConfig =
           [persistenceThreshold |-> orDefault(config, defaultPersistenceThreshold)]
    /\ cache = <<>>
    /\ storage = <<>>
    /\ clock = 0
    /\ awaiting = <<>>
    /\ calls = 0
    /\ lastMem = Mem("new", "call", "none", undefined, 0, "void", <<>>, "none", "none")
    /\ written = EmptyMap
    /\ touched = EmptyMap
    /\ recency = <<>>
    /\ persisted = <<>>

\* the manager constructed with the threshold modelled
MemoryInit == MemoryConstructed(ConfiguredThreshold)

\* what store(key, data) does to the record of the writes: the write to key is
\* the latest one, and every other key written before has one more store after it
Written(key, data) ==
    [k \in DOMAIN written \cup {key} |->
        IF k = key THEN [value |-> data, at |-> clock, others |-> 0]
        ELSE [written[k] EXCEPT !.others = Min(@ + 1, maxCacheSize)]]

\* MemoryManager.store
store(key, data, importanceScore) ==
    /\ calls < MaxCalls
    /\ calls' = calls + 1
    /\ cache' = cacheSet(cache, key, data, clock)
    /\ written' = Written(key, data)
    /\ touched' = TouchedIn(cache', MapSet(touched, key, clock))
    /\ recency' = RecencyIn(cache', Touch(recency, key))
    /\ IF shouldPersist(importanceScore)
       THEN /\ storage' = storageStore(storage, key, data)
            /\ persisted' = Persisted(persisted, key, storageStoreEvicts(storage))
            /\ lastMem' = Mem("store", "call", key, data, importanceScore, "void",
                              <<"data-persisted", "memory-updated">>,
                              cacheSetEvicts(cache), storageStoreEvicts(storage))
       ELSE /\ lastMem' = Mem("store", "call", key, data, importanceScore, "void",
                              <<"memory-updated">>, cacheSetEvicts(cache), "none")
            /\ UNCHANGED <<storage, persisted>>
    /\ UNCHANGED <<clock, awaiting>>
    /\ UNCHANGED storageConfig
    /\ UNCHANGED otherThanMemory

Store == \E key \in Keys, data \in Payloads, importanceScore \in Scores :
            store(key, data, importanceScore)

\* MemoryManager.retrieve, up to the return of a cache hit or to the await of
\* storage.retrieve
retrieve(key) ==
    /\ calls < MaxCalls
    /\ calls' = calls + 1
    /\ LET got == cacheGet(cache, key, clock)
       IN  /\ cache' = got.cache
           /\ IF got.value # undefined
              THEN /\ lastMem' = Mem("retrieve", "call", key, got.value, 0, got.value,
                                     <<"cache-hit">>, "none", "none")
                   /\ touched' = TouchedIn(cache', MapSet(touched, key, clock))
                   /\ recency' = RecencyIn(cache', Touch(recency, key))
                   /\ UNCHANGED awaiting
              ELSE /\ Len(awaiting) < MaxAwaiting
                   /\ awaiting' = Append(awaiting,
                                         [key |-> key,
                                          data |-> storageRetrieve(storage, key)])
                   /\ lastMem' = [Mem("retrieve", "call", key,
                                      storageRetrieve(storage, key), 0, "awaiting",
                                      <<>>, "none", "none")
                                  EXCEPT !.expired = Has(cache, key)]
                   /\ touched' = TouchedIn(cache', touched)
                   /\ recency' = RecencyIn(cache', recency)
    /\ UNCHANGED <<storage, clock, written, persisted>>
    /\ UNCHANGED storageConfig
    /\ UNCHANGED otherThanMemory

Retrieve == \E key \in Keys : retrieve(key)

\* MemoryManager.retrieve from the await of storage.retrieve to the return
retrieveResumes(i) ==
    /\ awaiting' = RemoveAt(awaiting, i)
    /\ LET key == awaiting[i].key
           data == awaiting[i].data
       IN  IF data # undefined
           THEN /\ cache' = cacheSet(cache, key, data, clock)
                /\ touched' = TouchedIn(cache', MapSet(touched, key, clock))
                /\ recency' = RecencyIn(cache', Touch(recency, key))
                /\ lastMem' = Mem("retrieve", "resume", key, data, 0, data,
                                  <<"storage-hit">>, cacheSetEvicts(cache), "none")
           ELSE /\ lastMem' = Mem("retrieve", "resume", key, data, 0, undefined,
                                  <<"miss">>, "none", "none")
                /\ UNCHANGED <<cache, touched, recency>>
    /\ UNCHANGED <<storage, clock, calls, written, persisted>>
    /\ UNCHANGED storageConfig
    /\ UNCHANGED otherThanMemory

RetrieveResumes == \E i \in 1..Len(awaiting) : retrieveResumes(i)

\* LRUCache.clear
cacheClear(c) == <<>>

cleanupBothTiers ==
    /\ calls < MaxCalls
    /\ calls' = calls + 1
    /\ cache' = cacheClear(cache)
    /\ storage' = <<>>
    /\ lastMem' = Mem("cleanup", "call", "none", undefined, 0, "void",
                      <<"cleanup-completed">>, "none", "none")
    /\ touched' = TouchedIn(cache', touched)
    /\ recency' = RecencyIn(cache', recency)
    /\ UNCHANGED <<clock, awaiting, written, persisted>>
    /\ UNCHANGED storageConfig
    /\ UNCHANGED otherThanMemory

\* MemoryManager.cleanup, the callback of the sweep timer
cleanup ==
    /\ calls < MaxCalls
    /\ calls' = calls + 1
    /\ cache' = cacheClear(cache)
    /\ lastMem' = Mem("cleanup", "call", "none", undefined, 0, "void",
                      <<"cleanup-completed">>, "none", "none")
    /\ touched' = TouchedIn(cache', touched)
    /\ recency' = RecencyIn(cache', recency)
    /\ UNCHANGED <<storage, clock, awaiting, written, persisted>>
    /\ UNCHANGED storageConfig
    /\ UNCHANGED otherThanMemory

\* Date.now() moves on for the memory manager
ClockAdvances ==
    /\ clock < MaxClock
    /\ clock' = clock + 1
    /\ UNCHANGED <<cache, storage, awaiting, calls, lastMem, written,
                   touched, recency, persisted>>
    /\ UNCHANGED storageConfig
    /\ UNCHANGED otherThanMemory

-----------------------------------------------------------------------------
(* Pattern recognition engine (src/core/analysis/pattern-recognition.ts):    *)
(* the guard of analyzeTimeSeries.  The patterns, anomalies and components   *)
(* themselves are not computed here, only which of them were.                *)

\* minPoints of the AdvancedTimeSeriesModel the engine constructs
minPoints == 30
\* longest window handed to analyzeTimeSeries
MaxPoints == 31

Shapes == {"flat", "up", "down", "wave"}

\* a window of n data points
Series(n, shape) ==
    [i \in 1..n |->
        [timestamp |-> i,
         value |-> CASE shape = "flat" -> 1
                     [] shape = "up" -> i
                     [] shape = "down" -> n - i
                     [] shape = "wave" -> i % 2]]

InsufficientData == "Insufficient data points for analysis"

analyzeShortGuard(values) ==
    IF Len(values) < minPoints - 1
    THEN [threw |-> TRUE, error |-> InsufficientData, stages |-> <<>>]
    ELSE [threw |-> FALSE, error |-> "none",
          stages |-> <<"decompose", "analyzeTrend", "analyzeSeasonality">>]

\* AdvancedTimeSeriesModel.analyze: the error thrown, or the stages run
analyze(values) ==
    IF Len(values) < minPoints
    THEN [threw |-> TRUE, error |-> InsufficientData, stages |-> <<>>]
    ELSE [threw |-> FALSE, error |-> "none",
          stages |-> <<"decompose", "analyzeTrend", "analyzeSeasonality">>]

\* PatternRecognitionEngine.analyzeTimeSeries: how the promise settles and
\* which parts of the result were computed before it did
analyzeTimeSeries(data) ==
    LET values == [i \in 1..Len(data) |-> data[i].value]
        patterns == analyze(values)
    IN  IF patterns.threw
        THEN [op |-> "analyzeTimeSeries", data |-> data, ret |-> "rejected",
              error |-> patterns.error, computed |-> patterns.stages]
        ELSE [op |-> "analyzeTimeSeries", data |-> data, ret |-> "result",
              error |-> "none",
              computed |-> patterns.stages \o <<"detect", "decompose">>]

\* the engine after its constructor
AnalysisInit ==
    analysis = [op |-> "new", data |-> <<>>, ret |-> "void", error |-> "none",
                computed |-> <<>>]

AnalyzeTimeSeries ==
    /\ \E n \in 0..MaxPoints, shape \in Shapes :
          analysis' = analyzeTimeSeries(Series(n, shape))
    /\ UNCHANGED otherThanAnalysis

-----------------------------------------------------------------------------
(* Predictive engine (src/core/predictive/engine.ts)                         *)
(*                                                                           *)
(* analyzePredictive calls forecast, RiskAnalyzer.analyze and                *)
(* TrendPredictor.predict in that order and then awaits the three.  forecast *)
(* runs from one `await generatePrediction` to the next in one step.  The    *)
(* arithmetic of the estimators and of the risk and trend figures is not     *)
(* computed: the value predicted at step i is the opaque number Output(i),   *)
(* and RiskMetrics / TrendIndicator are names.  What is modelled is which    *)
(* windows the steps read, how many predictions come back, and which calls   *)
(* throw.  The estimators as written do not throw on a window of numbers;    *)
(* `faulty` names the estimators in which an unexpected exception is raised. *)

\* historyWindow of the ForecastingModel the engine constructs
historyWindow == 100
\* forecastHorizon of the ForecastingModel the engine constructs
forecastHorizon == 10
\* confidenceLevel of the RiskAnalyzer the engine constructs, in percent
confidenceLevel == 95
\* minTrendDuration of the TrendPredictor the engine constructs
minTrendDuration == 5
\* longest window handed to analyzePredictive
MaxHistory == 101

Estimators == <<"exponentialSmoothing", "arima", "prophet">>

InsufficientHistory == "Insufficient historical data for forecasting"

\* reduce without an initial value on an empty array
ReduceOfEmpty == "TypeError: Reduce of empty array with no initial value"

\* the value the ensemble gives at step i
Output(i) == 0 - i

\* Array.prototype.slice(-n)
sliceLast(s, n) == IF n = 0 \/ n >= Len(s) THEN s ELSE SubSeq(s, Len(s) - n + 1, Len(s))

hasHistoryShort(values) == ~(Len(values) < historyWindow - 1)

\* the guard of forecast: what lets it go past the throw
hasHistory(values) == ~(Len(values) < historyWindow)

slideWindowNoShift(recentData, value) == Append(recentData, value)

\* recentData.push(prediction.value); recentData.shift()
slideWindow(recentData, value) == Tail(Append(recentData, value))

\* ForecastingModel.generatePrediction: Promise.all rejects when one of the
\* estimators does, and otherwise the three forecasts are combined
generatePrediction(historicalData, horizon) ==
    IF \E m \in 1..Len(Estimators) : Estimators[m] \in faulty
    THEN [threw |-> TRUE, error |-> "AnalysisFailure"]
    ELSE [threw |-> FALSE,
          prediction |-> [value |-> Output(horizon), horizon |-> horizon,
                          methodCount |-> Len(Estimators)]]

\* a forecast invocation: idle, waiting for generatePrediction of step i, or
\* settled; used lists the windows handed to generatePrediction so far
ForecastRun(status, error, recentData, predictions, i, used) ==
    [status |-> status, error |-> error, recentData |-> recentData,
     predictions |-> predictions, i |-> i, used |-> used]

NoForecast == ForecastRun("idle", "none", <<>>, <<>>, 0, <<>>)

\* ForecastingModel.forecast up to its first await or to its throw
forecastStart(data) ==
    LET values == [k \in 1..Len(data) |-> data[k].value]
    IN  IF ~hasHistory(values)
        THEN ForecastRun("rejected", InsufficientHistory, <<>>, <<>>, 0, <<>>)
        ELSE LET recentData == sliceLast(values, historyWindow)
             IN  IF forecastHorizon < 1
                 THEN ForecastRun("fulfilled", "none", recentData, <<>>, 1, <<>>)
                 ELSE ForecastRun("awaiting", "none", recentData, <<>>, 1, <<recentData>>)

\* ForecastingModel.forecast from the await of step run.i to the next await,
\* to the return or to the rejection
forecastResume(run) ==
    LET settled == generatePrediction(run.recentData, run.i)
    IN  IF settled.threw
        THEN [run EXCEPT !.status = "rejected", !.error = settled.error]
        ELSE LET recentData == slideWindow(run.recentData, settled.prediction.value)
                 predictions == Append(run.predictions, settled.prediction)
             IN  IF run.i + 1 <= forecastHorizon
                 THEN ForecastRun("awaiting", "none", recentData, predictions,
                                  run.i + 1, Append(run.used, recentData))
                 ELSE ForecastRun("fulfilled", "none", recentData, predictions,
                                  run.i + 1, run.used)

\* Math.floor(returns.length * (1 - confidenceLevel))
varIndex(returnsLength) == (returnsLength * (100 - confidenceLevel)) \div 100

\* RiskAnalyzer.analyze: calculateVolatility reduces the returns and
\* calculateCVaR the returns below the VaR index, both without initial value
riskAnalyze(data) ==
    LET returnsLength == IF Len(data) = 0 THEN 0 ELSE Len(data) - 1
    IN  IF returnsLength = 0 \/ varIndex(returnsLength) = 0
        THEN [threw |-> TRUE, error |-> ReduceOfEmpty, value |-> "none"]
        ELSE [threw |-> FALSE, error |-> "none", value |-> "RiskMetrics"]

\* TrendPredictor.predict: determineTrendDirection reduces the last
\* minTrendDuration returns without initial value
predict(data) ==
    LET returnsLength == IF Len(data) = 0 THEN 0 ELSE Len(data) - 1
    IN  IF Min(returnsLength, minTrendDuration) = 0
        THEN [threw |-> TRUE, error |-> ReduceOfEmpty, value |-> "none"]
        ELSE [threw |-> FALSE, error |-> "none", value |-> "TrendIndicator"]

NotCalled == [threw |-> FALSE, error |-> "none", value |-> "not called"]

\* an analyzePredictive invocation: how its promise stands, the window the
\* caller passed, and what the calls of analyze and predict gave
Engine(status, data, error, risk, trend, predictions) ==
    [status |-> status, data |-> data, error |-> error, risk |-> risk,
     trend |-> trend, predictions |-> predictions]

\* the engine after its constructor
PredictiveInit ==
    /\ engine = Engine("idle", <<>>, "none", NotCalled, NotCalled, <<>>)
    /\ forecastRun = NoForecast
    /\ faulty = {}

\* PredictiveEngine.analyzePredictive up to its await
analyzePredictive(data) ==
    /\ engine.status # "awaiting"
    /\ forecastRun.status # "awaiting"
    /\ forecastRun' = forecastStart(data)
    /\ LET risk == riskAnalyze(data)
           trend == predict(data)
       IN  engine' =
             IF risk.threw
             THEN Engine("rejected", data, risk.error, risk, NotCalled, <<>>)
             ELSE IF trend.threw
             THEN Engine("rejected", data, trend.error, risk, trend, <<>>)
             ELSE Engine("awaiting", data, "none", risk, trend, <<>>)
    /\ UNCHANGED faulty
    /\ UNCHANGED otherThanPredictive

AnalyzePredictive ==
    \E n \in 0..MaxHistory, shape \in Shapes : analyzePredictive(Series(n, shape))

\* the generatePrediction awaited by forecast settles
GeneratePredictionSettles ==
    /\ forecastRun.status = "awaiting"
    /\ forecastRun' = forecastResume(forecastRun)
    /\ UNCHANGED <<engine, faulty>>
    /\ UNCHANGED otherThanPredictive

\* PredictiveEngine.analyzePredictive from its await: Promise.all has settled
AnalyzePredictiveResumes ==
    /\ engine.status = "awaiting"
    /\ forecastRun.status \in {"fulfilled", "rejected"}
    /\ engine' =
         IF forecastRun.status = "rejected"
         THEN [engine EXCEPT !.status = "rejected", !.error = forecastRun.error]
         ELSE [engine EXCEPT !.status = "result",
                             !.predictions = forecastRun.predictions]
    /\ UNCHANGED <<forecastRun, faulty>>
    /\ UNCHANGED otherThanPredictive

-----------------------------------------------------------------------------
(* RobustAnomalyDetector (src/core/analysis/pattern-recognition.ts)        *)
(*                                                                         *)
(* detect is a function of the series alone.  The series hold integers,    *)
(* and every quantity the detector derives from them is kept exactly as a  *)
(* multiple of a fixed power of two and ten: twice the median, four times  *)
(* the median deviation, forty times the MAD.  A score is the pair of its  *)
(* numerator and denominator, so that x/0 (Infinity) and 0/0 (NaN) compare *)
(* as they do in the program.  Rounding of the floating-point operations   *)
(* is not represented.                                                     *)

\* threshold of the detector the engine constructs, in tenths
threshold == 25
\* sensitivityFactor of the detector the engine constructs, in tenths
sensitivityFactor == 15
\* longest series handed to detect
MaxSeriesLen == 5
\* largest factor a series is scaled by
MaxScale == 2

\* the values a series is made of
SeriesValues == {0, 1, 10, 100}

SeriesOf(n) == [1..n -> SeriesValues]

\* Math.abs
Abs(x) == IF x < 0 THEN 0 - x ELSE x

\* the sorted array with one more value in its place
insertAscending(sorted, v) ==
    LET k == Cardinality({j \in 1..Len(sorted) : sorted[j] <= v})
    IN  SubSeq(sorted, 1, k) \o <<v>> \o SubSeq(sorted, k + 1, Len(sorted))

RECURSIVE sortAscending(_)
\* [...data].sort((a, b) => a - b)
sortAscending(data) ==
    IF data = <<>>
    THEN <<>>
    ELSE insertAscending(sortAscending(SubSeq(data, 1, Len(data) - 1)), data[Len(data)])

\* calculateMedian, twice its value: the middle of the array as it is handed
\* over, which the function takes to be sorted
calculateMedian(sorted) ==
    LET middle == Len(sorted) \div 2
    IN  IF Len(sorted) % 2 = 0
        THEN sorted[middle] + sorted[middle + 1]
        ELSE 2 * sorted[middle + 1]

calculateMADEpsilon(data) ==
    LET median == calculateMedian(sortAscending(data))
        deviations == [i \in 1..Len(data) |-> Abs(2 * data[i] - median)]
    IN  [median |-> median, mad |-> calculateMedian(deviations) * sensitivityFactor + 20]

\* calculateMAD: twice the median and forty times the MAD; the deviations
\* (here doubled) go to calculateMedian in the order of the data
calculateMAD(data) ==
    LET median == calculateMedian(sortAscending(data))
        deviations == [i \in 1..Len(data) |-> Abs(2 * data[i] - median)]
    IN  [median |-> median, mad |-> calculateMedian(deviations) * sensitivityFactor]

exceedsFinite(score, limit, per) ==
    score.den # 0 /\ score.num * per > limit * score.den

\* score > limit / per, for a score num / den with den >= 0: Infinity is above
\* every limit, NaN above none
exceeds(score, limit, per) ==
    IF score.den = 0
    THEN score.num > 0
    ELSE score.num * per > limit * score.den

\* calculateSeverity
calculateSeverity(score) ==
    IF exceeds(score, threshold * 2, 10) THEN "high"
    ELSE IF exceeds(score, threshold * 15, 100) THEN "medium"
    ELSE "low"

\* Math.abs(value - median) / mad for the value at index (from 0)
scoreAt(data, index, m) ==
    [num |-> 20 * Abs(2 * data[index + 1] - m.median), den |-> m.mad]

\* the indices from..(n - 1) detect pushes an anomaly for, in order
RECURSIVE flaggedFrom(_, _, _)
flaggedFrom(data, from, m) ==
    IF from >= Len(data)
    THEN <<>>
    ELSE LET score == scoreAt(data, from, m)
         IN  (IF exceeds(score, threshold, 10)
              THEN <<[index |-> from, score |-> score,
                      severity |-> calculateSeverity(score)]>>
              ELSE <<>>) \o flaggedFrom(data, from + 1, m)

\* RobustAnomalyDetector.detect
detect(data) ==
    IF data = <<>> THEN <<>> ELSE flaggedFrom(data, 0, calculateMAD(data))

\* the series multiplied by c
scaled(data, c) == [i \in 1..Len(data) |-> c * data[i]]

\* no call of detect
NoDetection == [status |-> "idle", data |-> <<>>, c |-> 1, anomalies |-> <<>>, ofScaled |-> <<>>]

\* detect applied to the series and to the series scaled by c
Detect ==
    /\ detection.status = "called"
    /\ detection' = [detection EXCEPT !.status = "returned",
                                      !.anomalies = detect(detection.data),
                                      !.ofScaled = detect(scaled(detection.data, detection.c))]
    /\ UNCHANGED <<correlated, trendCall, indicator, ensemble>>
    /\ UNCHANGED otherThanNumeric

-----------------------------------------------------------------------------
(* AdvancedCorrelationAnalyzer (src/core/analysis/pattern-recognition.ts)  *)
(*                                                                         *)
(* A correlation is kept exactly as the pair num, den of integers with     *)
(* value num / sqrt(den): with n the common length, num is n * n times the *)
(* numerator the program accumulates and den is n^4 times the product of   *)
(* its two denominators.  den = 0 is the program's 0 / 0, NaN.  Rounding   *)
(* of the floating-point operations is not represented.                    *)

\* maxLag of the analyzer the engine constructs
maxLag == 10
\* longest series handed to analyzeCorrelation
MaxCorrLen == 4

\* the values a correlated series is made of
CorrValues == {0, 1}

CorrSeriesOf(n) == [1..n -> CorrValues]

RECURSIVE sum(_)
\* reduce((a, b) => a + b, 0)
sum(values) ==
    IF values = <<>> THEN 0 ELSE values[1] + sum(Tail(values))

\* Array.prototype.slice(from, end) for from >= 0
slice(values, from, end) ==
    LET to == IF end < 0 THEN Max(Len(values) + end, 0) ELSE Min(end, Len(values))
    IN  IF from >= to THEN <<>> ELSE SubSeq(values, from + 1, to)

\* calculateCorrelation: the means divide the sums of the whole arrays by the
\* common length n, and the loop runs over the first n values
calculateCorrelation(series1, series2) ==
    LET n == Min(Len(series1), Len(series2))
        diff1 == [i \in 1..n |-> n * series1[i] - sum(series1)]
        diff2 == [i \in 1..n |-> n * series2[i] - sum(series2)]
        numerator == sum([i \in 1..n |-> diff1[i] * diff2[i]])
        denom1 == sum([i \in 1..n |-> diff1[i] * diff1[i]])
        denom2 == sum([i \in 1..n |-> diff2[i] * diff2[i]])
    IN  [num |-> numerator, den |-> denom1 * denom2]

isNaN(correlation) == correlation.den = 0

\* Math.abs of a correlation
absCorrelation(correlation) == [correlation EXCEPT !.num = Abs(correlation.num)]

\* x > y for absolute correlations; false when either is NaN
greater(x, y) ==
    /\ ~isNaN(x) /\ ~isNaN(y)
    /\ x.num * x.num * y.den > y.num * y.num * x.den

\* the correlation of the two series at a lag, as findLags and analyze take it
correlationAt(series1, series2, lag) ==
    calculateCorrelation(slice(series1, lag, Len(series1)),
                         slice(series2, 0, Len(series2) - lag))

\* the sorted array with one more item in its place: the item goes before the
\* trailing items that (a, b) => b.correlation - a.correlation puts after it,
\* a NaN difference counting as 0
insertDescending(sorted, item) ==
    LET notAfter == {j \in 1..Len(sorted) : ~greater(item.correlation, sorted[j].correlation)}
        k == IF notAfter = {} THEN 0 ELSE CHOOSE j \in notAfter : \A h \in notAfter : h <= j
    IN  SubSeq(sorted, 1, k) \o <<item>> \o SubSeq(sorted, k + 1, Len(sorted))

RECURSIVE sortDescending(_)
\* lags.sort((a, b) => b.correlation - a.correlation), a stable sort
sortDescending(items) ==
    IF items = <<>>
    THEN <<>>
    ELSE insertDescending(sortDescending(SubSeq(items, 1, Len(items) - 1)), items[Len(items)])

\* findLags
findLags(series1, series2) ==
    LET correlations ==
            [k \in 1..(maxLag + 1) |->
                [lag |-> k - 1,
                 correlation |-> absCorrelation(correlationAt(series1, series2, k - 1))]]
        sorted == sortDescending(correlations)
    IN  [k \in 1..Len(sorted) |-> sorted[k].lag]

\* AdvancedCorrelationAnalyzer.analyze
correlate(series1, series2) ==
    LET lags == findLags(series1, series2)
        bestLag == lags[1]
    IN  [coefficient |-> correlationAt(series1, series2, bestLag),
         significance |-> 95,
         lag |-> bestLag]

\* no call of analyzeCorrelation
NoCorrelation ==
    [status |-> "idle", series1 |-> <<>>, series2 |-> <<>>,
     result |-> [coefficient |-> [num |-> 0, den |-> 0], significance |-> 95, lag |-> 0]]

\* PatternRecognitionEngine.analyzeCorrelation applied to the two series
AnalyzeCorrelation ==
    /\ correlated.status = "called"
    /\ correlated' = [correlated EXCEPT !.status = "returned",
                                        !.result = correlate(correlated.series1,
                                                             correlated.series2)]
    /\ UNCHANGED <<detection, trendCall, indicator, ensemble>>
    /\ UNCHANGED otherThanNumeric

-----------------------------------------------------------------------------
(* AdvancedTimeSeriesModel.analyzeTrend                                    *)
(* (src/core/analysis/pattern-recognition.ts)                              *)

\* longest trend series handed to analyzeTrend
MaxTrendLen == 5

\* the values a trend series is made of
TrendValues == {0, 1, 2}

TrendSeriesOf(n) == [1..n -> TrendValues]

\* trend[i] > trend[i - 1] ? 'up' : 'down', for the index i from 0
direction(trend, i) == IF trend[i + 1] > trend[i] THEN "up" ELSE "down"

\* the loop of analyzeTrend from index i on
RECURSIVE trendLoop(_, _, _, _, _)
trendLoop(trend, i, currentTrend, startIndex, patterns) ==
    IF i >= Len(trend)
    THEN patterns
    ELSE IF currentTrend # direction(trend, i)
    THEN trendLoop(trend, i + 1, direction(trend, i), i,
                   IF currentTrend # "null"
                   THEN Append(patterns, [type |-> "TREND", confidence |-> 90,
                                          startIndex |-> startIndex, endIndex |-> i - 1,
                                          direction |-> currentTrend])
                   ELSE patterns)
    ELSE trendLoop(trend, i + 1, currentTrend, startIndex, patterns)

\* AdvancedTimeSeriesModel.analyzeTrend
analyzeTrend(trend) == trendLoop(trend, 1, "null", 0, <<>>)

\* no call of analyzeTrend
NoTrendCall == [status |-> "idle", trend |-> <<>>, patterns |-> <<>>]

\* analyzeTrend applied to the trend series
AnalyzeTrend ==
    /\ trendCall.status = "called"
    /\ trendCall' = [trendCall EXCEPT !.status = "returned",
                                      !.patterns = analyzeTrend(trendCall.trend)]
    /\ UNCHANGED <<detection, correlated, indicator, ensemble>>
    /\ UNCHANGED otherThanNumeric

-----------------------------------------------------------------------------
(* TrendPredictor: the trend indicator of a window, in exact arithmetic *)

RECURSIVE gcd(_, _)
gcd(a, b) == IF b = 0 THEN a ELSE gcd(b, a % b)

\* the doubles of the trend predictor: a fraction in lowest terms with a
\* positive denominator, an infinity with its sign, or NaN
NaN == [kind |-> "nan", num |-> 0, den |-> 0]

Infinity(sign) == [kind |-> "inf", num |-> sign, den |-> 0]

fraction(num, den) ==
    LET g == gcd(Abs(num), den)
    IN  [kind |-> "finite", num |-> num \div g, den |-> den \div g]

\* n / d for two integers
divide(n, d) ==
    IF d = 0
    THEN IF n = 0 THEN NaN ELSE Infinity(IF n > 0 THEN 1 ELSE 0 - 1)
    ELSE IF d < 0 THEN fraction(0 - n, 0 - d) ELSE fraction(n, d)

\* x + y
plus(x, y) ==
    IF x.kind = "nan" \/ y.kind = "nan" THEN NaN
    ELSE IF x.kind = "inf" /\ y.kind = "inf" THEN IF x.num = y.num THEN x ELSE NaN
    ELSE IF x.kind = "inf" THEN x
    ELSE IF y.kind = "inf" THEN y
    ELSE LET g == gcd(x.den, y.den)
         IN  fraction(x.num * (y.den \div g) + y.num * (x.den \div g),
                      (x.den \div g) * y.den)

\* x * y for two finite doubles
times(x, y) == fraction(x.num * y.num, x.den * y.den)

\* -x and Math.abs(x)
negate(x) == [x EXCEPT !.num = 0 - @]

absolute(x) == [x EXCEPT !.num = Abs(@)]

\* a / b < c / d for positive b and d, by the continued fractions of the two
RECURSIVE fractionLess(_, _, _, _)
fractionLess(a, b, c, d) ==
    IF a \div b # c \div d THEN a \div b < c \div d
    ELSE IF c % d = 0 THEN FALSE
    ELSE IF a % b = 0 THEN TRUE
    ELSE fractionLess(d, c % d, b, a % b)

\* x < y: false as soon as one of the two is NaN
lessThan(x, y) ==
    IF x.kind = "nan" \/ y.kind = "nan" THEN FALSE
    ELSE IF x.kind = "inf" THEN x.num < 0 /\ ~(y.kind = "inf" /\ y.num < 0)
    ELSE IF y.kind = "inf" THEN y.num > 0
    ELSE fractionLess(x.num, x.den, y.num, y.den)

\* top / bottom for a positive finite bottom, kept as the pair of them
over(top, bottom) == [top |-> top, bottom |-> bottom]

\* top / bottom < y and top / bottom > y for a finite y
quotientLess(q, y) == lessThan(q.top, times(y, q.bottom))

quotientGreater(q, y) == lessThan(times(y, q.bottom), q.top)

\* the constructor's default trendThreshold, 0.02
trendThreshold == divide(2, 100)

\* values.slice(1).map((value, i) => (value - values[i]) / values[i])
calculateReturns(values) ==
    [i \in 1..(Len(values) - 1) |-> divide(values[i + 1] - values[i], values[i])]

\* reduce((a, b) => a + b) of an array that is not empty
RECURSIVE reduceSum(_)
reduceSum(s) ==
    IF Len(s) = 1 THEN s[1]
    ELSE plus(reduceSum(SubSeq(s, 1, Len(s) - 1)), s[Len(s)])

\* returns.slice(-minTrendDuration) summed and divided by its length
averageReturn(returns) ==
    LET recentReturns == sliceLast(returns, minTrendDuration)
    IN  over(reduceSum(recentReturns), divide(Len(recentReturns), 1))

\* TrendPredictor.determineTrendDirection
determineTrendDirection(returns) ==
    LET average == averageReturn(returns)
    IN  IF quotientLess(over(absolute(average.top), average.bottom), trendThreshold)
        THEN "sideways"
        ELSE IF quotientGreater(average, divide(0, 1)) THEN "up" ELSE "down"

\* TrendPredictor.calculateTrendStrength
calculateTrendStrength(returns) ==
    LET recentReturns == sliceLast(returns, minTrendDuration)
    IN  over(absolute(reduceSum(recentReturns)), divide(Len(recentReturns), 1))

\* the test of the loop of calculateTrendDuration on returns[i]
consistent(returns, trend, i) ==
    \/ trend = "up" /\ lessThan(negate(trendThreshold), returns[i])
    \/ trend = "down" /\ lessThan(returns[i], trendThreshold)
    \/ trend = "sideways" /\ lessThan(absolute(returns[i]), trendThreshold)

\* TrendPredictor.calculateTrendDuration: the loop counts downwards from the
\* last return and breaks at the first one that fails the test
calculateTrendDuration(returns, trend) ==
    LET failing == {i \in 1..Len(returns) : ~consistent(returns, trend, i)}
    IN  IF failing = {} THEN Len(returns)
        ELSE Len(returns) - (CHOOSE i \in failing : \A k \in failing : k <= i)

\* Math.min(q, 1) of a quotient: NaN stays NaN
minWithOne(q) ==
    IF q.top.kind = "nan" \/ quotientLess(q, divide(1, 1)) THEN q
    ELSE over(divide(1, 1), divide(1, 1))

\* TrendPredictor.calculateTrendConfidence: the two terms of the weighted
\* sum, the weights being tenths
calculateTrendConfidence(strength, duration) ==
    [strengthWeight |-> 6,
     durationWeight |-> 4,
     normalizedStrength |->
         minWithOne(over(strength.top, times(trendThreshold, strength.bottom))),
     normalizedDuration |->
         minWithOne(over(divide(duration, 1), divide(minTrendDuration * 2, 1)))]

\* TrendPredictor.predict on the values of the window
trendIndicator(values) ==
    LET returns == calculateReturns(values)
    IN  IF Len(returns) = 0
        THEN [threw |-> TRUE, error |-> ReduceOfEmpty]
        ELSE LET trend == determineTrendDirection(returns)
                 strength == calculateTrendStrength(returns)
                 duration == calculateTrendDuration(returns, trend)
             IN  [threw |-> FALSE,
                  direction |-> trend,
                  strength |-> strength,
                  duration |-> duration,
                  confidence |-> calculateTrendConfidence(strength, duration)]

\* longest tail of other values a window ends with
MaxTail == 2

TailValues == {0, 1, 2, 10}

\* a window of historyWindow points: a series and a tail of other values
TrendWindow(shape, ending) ==
    LET series == Series(historyWindow - Len(ending), shape)
    IN  [i \in 1..Len(series) |-> series[i].value] \o ending

\* no call of predict
NoIndicator == [status |-> "idle", values |-> <<>>, result |-> [threw |-> FALSE]]

\* predict applied to the window
PredictTrend ==
    /\ indicator.status = "called"
    /\ indicator' = [indicator EXCEPT !.status = "returned",
                                      !.result = trendIndicator(indicator.values)]
    /\ UNCHANGED <<detection, correlated, trendCall, ensemble>>
    /\ UNCHANGED otherThanNumeric

-----------------------------------------------------------------------------
(* ForecastingModel: the point forecast of a step and its bounds *)

\* x - y
minus(x, y) == plus(x, negate(y))

\* the weights of ensembleForecasts, in tenths
weights == <<4, 3, 3>>

\* forecasts.reduce((acc, forecast, i) => acc + forecast * weights[i], 0)
RECURSIVE weightedSum(_, _)
weightedSum(forecasts, n) ==
    IF n = 0 THEN divide(0, 1)
    ELSE plus(weightedSum(forecasts, n - 1),
              times(divide(forecasts[n], 1), divide(weights[n], 10)))

\* ForecastingModel.ensembleForecasts
ensembleForecasts(forecasts) == weightedSum(forecasts, Len(forecasts))

\* forecasts.reduce((a, b) => a + b) / forecasts.length
meanOf(forecasts) ==
    times(reduceSum([i \in 1..Len(forecasts) |-> divide(forecasts[i], 1)]),
          divide(1, Len(forecasts)))

\* forecasts.reduce((acc, f) => acc + Math.pow(f - mean, 2), 0) / forecasts.length
RECURSIVE squaresSum(_, _, _)
squaresSum(forecasts, mean, n) ==
    IF n = 0 THEN divide(0, 1)
    ELSE LET deviation == minus(divide(forecasts[n], 1), mean)
         IN  plus(squaresSum(forecasts, mean, n - 1), times(deviation, deviation))

varianceOf(forecasts) ==
    times(squaresSum(forecasts, meanOf(forecasts), Len(forecasts)),
          divide(1, Len(forecasts)))

\* mean + z * Math.sqrt(variance), kept as its three parts
surd(mean, z, variance) == [mean |-> mean, z |-> z, variance |-> variance]

calculatePredictionBoundsNarrow(forecasts) ==
    [upper |-> surd(meanOf(forecasts), divide(1, 10), varianceOf(forecasts)),
     lower |-> surd(meanOf(forecasts), divide(0 - 1, 10), varianceOf(forecasts))]

\* ForecastingModel.calculatePredictionBounds, with z = 1.96
calculatePredictionBounds(forecasts) ==
    [upper |-> surd(meanOf(forecasts), divide(196, 100), varianceOf(forecasts)),
     lower |-> surd(meanOf(forecasts), divide(0 - 196, 100), varianceOf(forecasts))]

\* z * z * variance set against the square of x - mean
surdSquareLess(s, x) ==
    lessThan(times(times(s.z, s.z), s.variance),
             times(minus(x, s.mean), minus(x, s.mean)))

\* s >= x and s <= x for a double x
surdAtLeast(s, x) ==
    IF s.z.num >= 0
    THEN ~lessThan(s.mean, x) \/ ~surdSquareLess(s, x)
    ELSE ~lessThan(s.mean, x)
         /\ ~lessThan(times(minus(x, s.mean), minus(x, s.mean)),
                      times(times(s.z, s.z), s.variance))

surdAtMost(s, x) ==
    IF s.z.num >= 0
    THEN ~lessThan(x, s.mean)
         /\ ~lessThan(times(minus(x, s.mean), minus(x, s.mean)),
                      times(times(s.z, s.z), s.variance))
    ELSE ~lessThan(x, s.mean) \/ ~surdSquareLess(s, x)

\* the estimators' outputs a step combines: whole numbers, a base value and
\* three offsets up to MaxSpread
MaxSpread == 6

ForecastBases == {0, 96}

ForecastsOf(base) == [1..Len(weights) -> base..(base + MaxSpread)]

\* no step of the forecast
NoEnsemble ==
    [status |-> "idle", forecasts |-> <<>>, value |-> NaN,
     bounds |-> [upper |-> surd(NaN, NaN, NaN), lower |-> surd(NaN, NaN, NaN)]]

\* generatePrediction once Promise.all has given the three forecasts
CombineForecasts ==
    /\ ensemble.status = "awaiting"
    /\ ensemble' = [ensemble EXCEPT
                        !.status = "returned",
                        !.value = ensembleForecasts(ensemble.forecasts),
                        !.bounds = calculatePredictionBounds(ensemble.forecasts)]
    /\ UNCHANGED <<detection, correlated, trendCall, indicator>>
    /\ UNCHANGED otherThanNumeric

-----------------------------------------------------------------------------
(* withRetry: an operation retried with a growing delay *)

\* the defaults of the destructured options
defaultMaxAttempts == 3
defaultDelayMs == 1000
defaultBackoffFactor == 2

\* largest maxAttempts a caller passes
MaxAttempts == 3

DelayChoices == {1, 1000}
BackoffChoices == {1, 2}

\* the errors the operation rejects with, and the shouldRetry callbacks:
\* the default one and one that gives up on a fatal error
ErrorKinds == {"transient", "fatal"}
RetryPolicies == {"always", "unlessFatal"}

NoOptions == [k \in {} |-> 0]

RetryOptions ==
    {NoOptions}
    \cup [maxAttempts : 0..MaxAttempts, delayMs : DelayChoices,
          backoffFactor : BackoffChoices, shouldRetry : RetryPolicies]

\* const { maxAttempts = 3, delayMs = 1000, backoffFactor = 2,
\*         shouldRetry = () => true } = options
destructure(options) ==
    IF DOMAIN options = {}
    THEN [maxAttempts |-> defaultMaxAttempts, delayMs |-> defaultDelayMs,
          backoffFactor |-> defaultBackoffFactor, shouldRetry |-> "always"]
    ELSE options

\* the callback applied to the error of the failed attempt
shouldRetry(policy, error) == policy = "always" \/ error.kind # "fatal"

isLastAttemptLate(attempt, maxAttempts) == attempt = maxAttempts + 1

\* attempt === maxAttempts
isLastAttempt(attempt, maxAttempts) == attempt = maxAttempts

backoffAdds(delay, backoffFactor) == delay + backoffFactor

\* delay *= backoffFactor
backoff(delay, backoffFactor) == delay * backoffFactor

\* let lastError: the variable before any assignment
NoError == [kind |-> "undefined", attempt |-> 0]

\* no call of withRetry
NoRetry ==
    [status |-> "idle", options |-> destructure(NoOptions), attempt |-> 0, delay |-> 0,
     lastError |-> NoError, settled |-> NoError,
     outcomes |-> <<>>, waits |-> <<>>]

\* the head of the for loop: the operation is invoked and awaited while
\* attempt <= maxAttempts, and past the loop lastError is thrown
loopHead(call) ==
    IF call.attempt <= call.options.maxAttempts
    THEN [call EXCEPT !.status = "operation"]
    ELSE [call EXCEPT !.status = "rejected", !.settled = call.lastError]

\* withRetry up to its first await or to its throw
withRetry(options) ==
    /\ retry.status \in {"idle", "resolved", "rejected"}
    /\ retry' = loopHead([NoRetry EXCEPT !.options = destructure(options),
                                         !.attempt = 1,
                                         !.delay = destructure(options).delayMs])
    /\ UNCHANGED otherThanRetry

WithRetry == \E options \in RetryOptions : withRetry(options)

\* the awaited operation fulfils: withRetry returns its value
operationFulfils ==
    /\ retry.status = "operation"
    /\ retry' = [retry EXCEPT !.status = "resolved",
                              !.settled = [kind |-> "value", attempt |-> retry.attempt],
                              !.outcomes = Append(@, "ok")]
    /\ UNCHANGED otherThanRetry

\* the awaited operation rejects: the catch block up to its throw or its await
operationRejects(kind) ==
    /\ retry.status = "operation"
    /\ LET lastError == [kind |-> kind, attempt |-> retry.attempt]
       IN  retry' =
             IF \/ isLastAttempt(retry.attempt, retry.options.maxAttempts)
                \/ ~shouldRetry(retry.options.shouldRetry, lastError)
             THEN [retry EXCEPT !.status = "rejected", !.lastError = lastError,
                                !.settled = lastError,
                                !.outcomes = Append(@, kind)]
             ELSE [retry EXCEPT !.status = "waiting", !.lastError = lastError,
                                !.outcomes = Append(@, kind),
                                !.waits = Append(@, retry.delay)]
    /\ UNCHANGED otherThanRetry

OperationSettles ==
    \/ operationFulfils
    \/ \E kind \in ErrorKinds : operationRejects(kind)

\* the timer of the catch block fires: the delay grows and the loop goes on
TimerFires ==
    /\ retry.status = "waiting"
    /\ retry' = loopHead([retry EXCEPT
                              !.delay = backoff(retry.delay, retry.options.backoffFactor),
                              !.attempt = @ + 1])
    /\ UNCHANGED otherThanRetry

RetryIdle == retry = NoRetry

\* the detector, the correlation analyzer and the trend analysis not called
NumericIdle ==
    /\ detection = NoDetection
    /\ correlated = NoCorrelation
    /\ trendCall = NoTrendCall
    /\ indicator = NoIndicator
    /\ ensemble = NoEnsemble

-----------------------------------------------------------------------------
(* Specifications *)

\* The window manager left as constructed
WindowIdle ==
    /\ windows = EmptyMap
    /\ windowSizes = EmptyMap
    /\ retentionPeriod = DefaultRetention
    /\ now = 1
    /\ snapshot = NoSnapshot
    /\ lastPush = [op |-> "new", windowId |-> "none", maxSize |-> 0]
    /\ arrivals = EmptyMap
    /\ pushed = 0

\* The processor left as constructed
StreamIdle == StreamInit

\* The memory manager and the pattern recognition engine left as constructed
MemoryIdle == MemoryInit /\ AnalysisInit /\ PredictiveInit /\ NumericIdle /\ RetryIdle

\* The stream processor: submissions, timer ticks, batches, clearQueue
Init == StreamInit /\ WindowIdle /\ RingInit /\ MemoryIdle

Next ==
    \/ start
    \/ stop
    \/ AddDataPoint
    \/ clearQueue
    \/ TickSkipped
    \/ TickRuns
    \/ ProcessBatchResumes

Spec == Init /\ [][Next]_vars

\* The window buffers: pushes, snapshots, clears, the clock
WindowSpecInit == StreamIdle /\ WindowInit /\ RingInit /\ MemoryIdle

WindowNext ==
    \/ AddToWindow
    \/ GetWindow
    \/ ClearWindow
    \/ TimePasses
    \/ RingPush
    \/ RingPop
    \/ RingClear

WindowSpec == WindowSpecInit /\ [][WindowNext]_vars


\* The scheduler left to drain what was accepted: the processor after start()
\* and n accepted submissions, then only timer ticks and batch steps
RECURSIVE Arrivals(_)
Arrivals(ps) ==
    IF ps = <<>> THEN <<>>
    ELSE Append(Arrivals(SubSeq(ps, 1, Len(ps) - 1)), Arrival(ps[Len(ps)], Len(ps)))

DrainInit ==
    /\ \E n \in 0..maxQueueSize : \E ps \in [1..n -> PointInputs] :
         /\ queue = Arrivals(ps)
         /\ accepted = n
         /\ metrics = [processedCount |-> 0, errorCount |-> 0, queueSize |-> n]
         /\ lastOp = IF n = 0 THEN Op("start", "void", <<"started">>, 0, NoResult)
                     ELSE Op("addDataPoint", "true", <<"metrics-updated">>,
                             maxMemoryUsage - 1, NoResult)
    /\ isProcessing = FALSE
    /\ processingInterval = TRUE
    /\ running = <<>>
    /\ processedLog = <<>>
    /\ WindowIdle
    /\ RingInit
    /\ MemoryIdle

DrainNext ==
    \/ TickSkipped
    \/ TickRuns
    \/ ProcessBatchResumes

\* setInterval keeps firing the callback, and a settled await is resumed
DrainSpec ==
    /\ DrainInit
    /\ [][DrainNext]_vars
    /\ WF_vars(TickRuns)
    /\ WF_vars(ProcessBatchResumes)


\* The memory manager: stores, retrieves, sweeps, the clock
MemorySpecInit ==
    /\ StreamIdle /\ WindowIdle /\ RingInit /\ MemoryInit /\ AnalysisInit
    /\ PredictiveInit /\ NumericIdle /\ RetryIdle

MemoryNext ==
    \/ Store
    \/ Retrieve
    \/ RetrieveResumes
    \/ cleanup
    \/ ClockAdvances

MemorySpec == MemorySpecInit /\ [][MemoryNext]_vars

\* The memory manager constructed with no persistence threshold, or with 0
DefaultsSpecInit ==
    /\ StreamIdle /\ WindowIdle /\ RingInit /\ AnalysisInit
    /\ PredictiveInit /\ NumericIdle /\ RetryIdle
    /\ \E config \in {NoConfig, ZeroThreshold} : MemoryConstructed(config)

DefaultsSpec == DefaultsSpecInit /\ [][MemoryNext]_vars

\* The pattern recognition engine: calls of analyzeTimeSeries
AnalysisSpecInit ==
    /\ StreamIdle /\ WindowIdle /\ RingInit /\ MemoryInit /\ AnalysisInit
    /\ PredictiveInit /\ NumericIdle /\ RetryIdle

AnalysisNext == AnalyzeTimeSeries

AnalysisSpec == AnalysisSpecInit /\ [][AnalysisNext]_vars

\* The predictive engine: calls of analyzePredictive and the forecast steps
PredictiveSpecInit ==
    /\ StreamIdle /\ WindowIdle /\ RingInit /\ MemoryInit /\ AnalysisInit
    /\ PredictiveInit /\ NumericIdle /\ RetryIdle

PredictiveNext ==
    \/ AnalyzePredictive
    \/ GeneratePredictionSettles
    \/ AnalyzePredictiveResumes

PredictiveSpec == PredictiveSpecInit /\ [][PredictiveNext]_vars

\* The predictive engine with an exception raised inside one estimator
FaultSpecInit ==
    /\ StreamIdle /\ WindowIdle /\ RingInit /\ MemoryInit /\ AnalysisInit
    /\ engine = Engine("idle", <<>>, "none", NotCalled, NotCalled, <<>>)
    /\ forecastRun = NoForecast
    /\ \E m \in 1..Len(Estimators) : faulty = {Estimators[m]}
    /\ NumericIdle /\ RetryIdle

FaultSpec == FaultSpecInit /\ [][PredictiveNext]_vars

\* everything but the detector, the correlation analyzer and the trend analysis
NumericRest ==
    /\ StreamIdle /\ WindowIdle /\ RingInit /\ MemoryInit /\ AnalysisInit
    /\ PredictiveInit /\ RetryIdle

\* The anomaly detector: detect called on a series and on the series scaled
DetectSpecInit ==
    /\ NumericRest
    /\ correlated = NoCorrelation
    /\ trendCall = NoTrendCall
    /\ indicator = NoIndicator
    /\ ensemble = NoEnsemble
    /\ \E n \in 0..MaxSeriesLen : \E data \in SeriesOf(n) : \E c \in 1..MaxScale :
           detection = [NoDetection EXCEPT !.status = "called", !.data = data, !.c = c]

DetectNext == Detect

DetectSpec == DetectSpecInit /\ [][DetectNext]_vars

\* The correlation analyzer: analyzeCorrelation called on two series
CorrelationSpecInit ==
    /\ NumericRest
    /\ detection = NoDetection
    /\ trendCall = NoTrendCall
    /\ indicator = NoIndicator
    /\ ensemble = NoEnsemble
    /\ \E n1 \in 0..MaxCorrLen, n2 \in 0..MaxCorrLen :
           \E series1 \in CorrSeriesOf(n1), series2 \in CorrSeriesOf(n2) :
               correlated = [NoCorrelation EXCEPT !.status = "called",
                                                  !.series1 = series1,
                                                  !.series2 = series2]

CorrelationNext == AnalyzeCorrelation

CorrelationSpec == CorrelationSpecInit /\ [][CorrelationNext]_vars

\* The trend analysis: analyzeTrend called on a trend series
TrendSpecInit ==
    /\ NumericRest
    /\ detection = NoDetection
    /\ correlated = NoCorrelation
    /\ indicator = NoIndicator
    /\ ensemble = NoEnsemble
    /\ \E n \in 0..MaxTrendLen : \E trend \in TrendSeriesOf(n) :
           trendCall = [NoTrendCall EXCEPT !.status = "called", !.trend = trend]

TrendNext == AnalyzeTrend

TrendSpec == TrendSpecInit /\ [][TrendNext]_vars

\* The trend predictor: predict called on a window of historyWindow points
IndicatorSpecInit ==
    /\ NumericRest
    /\ detection = NoDetection
    /\ correlated = NoCorrelation
    /\ trendCall = NoTrendCall
    /\ ensemble = NoEnsemble
    /\ \E shape \in Shapes : \E n \in 0..MaxTail : \E ending \in [1..n -> TailValues] :
           indicator = [NoIndicator EXCEPT !.status = "called",
                                           !.values = TrendWindow(shape, ending)]

IndicatorNext == PredictTrend

IndicatorSpec == IndicatorSpecInit /\ [][IndicatorNext]_vars

\* The forecasting model: a step combining the outputs of its estimators
EnsembleSpecInit ==
    /\ NumericRest
    /\ detection = NoDetection
    /\ correlated = NoCorrelation
    /\ trendCall = NoTrendCall
    /\ indicator = NoIndicator
    /\ \E base \in ForecastBases : \E forecasts \in ForecastsOf(base) :
           ensemble = [NoEnsemble EXCEPT !.status = "awaiting",
                                         !.forecasts = forecasts]

EnsembleNext == CombineForecasts

EnsembleSpec == EnsembleSpecInit /\ [][EnsembleNext]_vars

\* withRetry called again and again, the operation and the timers left to
\* settle whenever they do
RetrySpecInit ==
    /\ NumericRest
    /\ NumericIdle

RetryNext == WithRetry \/ OperationSettles \/ TimerFires

RetrySpec == RetrySpecInit /\ [][RetryNext]_vars

\* the same with every awaited operation and every timer settling in the end
RetryFairSpec ==
    RetrySpec /\ WF_vars(OperationSettles) /\ WF_vars(TimerFires)

-----------------------------------------------------------------------------
(* Properties of the ingestion queue and the batch scheduler *)

Emits(op, event) == \E i \in 1..Len(op.events) : op.events[i] = event

\* C1 as stated: the queue never holds more than maxQueueSize points, and an
\* addDataPoint issued while it holds maxQueueSize points returns false, emits
\* queue-full and leaves the queue unchanged.
C1_RejectsWithQueueFull ==
    [][ /\ Len(queue') <= maxQueueSize
        /\ (lastOp'.op = "addDataPoint" /\ Len(queue) = maxQueueSize)
             => /\ lastOp'.ret = "false"
                /\ Emits(lastOp', "queue-full")
                /\ queue' = queue ]_vars

\* C1 amended: the queue never holds more than maxQueueSize points; an
\* addDataPoint issued while it holds maxQueueSize points returns false and
\* leaves the queue unchanged, and it emits queue-full when the heap is below
\* the memory ceiling (with the heap at or above it, it emits memory-warning
\* and no queue-full).
C1_Backpressure ==
    [][ /\ Len(queue') <= maxQueueSize
        /\ (lastOp'.op = "addDataPoint" /\ Len(queue) = maxQueueSize)
             => /\ lastOp'.ret = "false"
                /\ queue' = queue
                /\ Emits(lastOp', "queue-full") <=> (lastOp'.heap < maxMemoryUsage) ]_vars

\* a submission was rejected with queue-full on a full queue
C1_Witness ==
    /\ lastOp.op = "addDataPoint"
    /\ lastOp.ret = "false"
    /\ Emits(lastOp, "queue-full")
    /\ Len(queue) = maxQueueSize

RECURSIVE Increasing(_)
Increasing(ids) ==
    \/ Len(ids) <= 1
    \/ ids[1] < ids[2] /\ Increasing(Tail(ids))

\* C2: a tick that runs removes exactly the min(batchSize, queue length) oldest
\* points and they make its batch, and the points handed to processDataPoint
\* are in the order they were accepted, within and across batches.
C2_FifoDraining ==
    [][ /\ (lastOp'.op = "tick" /\ lastOp'.ret # "skipped")
             => LET k == Min(batchSize, Len(queue))
                IN  /\ queue' = SubSeq(queue, k + 1, Len(queue))
                    /\ IF k = 0 THEN lastOp'.result.batch = <<>>
                       ELSE /\ running' # <<>>
                            /\ running'[Len(running')].batch = SubSeq(queue, 1, k)
        /\ Increasing(processedLog') ]_vars

\* a second batch was started after a full first one: its first point is handed on
C2_Witness ==
    /\ Len(processedLog) > batchSize
    /\ lastOp.op = "tick"
    /\ lastOp.ret = "started"

\* C3: at most one batch is in progress, and a tick that fires while a batch
\* is processing dequeues nothing, emits nothing, and leaves the queue, the
\* counters, the batch in progress and the run flag as they are.
C3_NoOverlap ==
    [][ /\ Len(running') <= 1
        /\ (lastOp'.op = "tick" /\ isProcessing)
             => /\ lastOp'.ret = "skipped"
                /\ lastOp'.events = <<>>
                /\ lastOp'.result = NoResult
                /\ UNCHANGED <<queue, metrics, running, isProcessing, processedLog,
                               accepted>> ]_vars

\* a tick was skipped while a batch was in progress and points were waiting
C3_Witness ==
    /\ lastOp.op = "tick"
    /\ lastOp.ret = "skipped"
    /\ Len(running) = 1
    /\ queue # <<>>

RECURSIVE ValidIds(_)
ValidIds(batch) ==
    IF batch = <<>> THEN <<>>
    ELSE (IF validateDataPoint(batch[1]) THEN <<batch[1].id>> ELSE <<>>)
         \o ValidIds(Tail(batch))

BatchEnded(op) == op.op \in {"tick", "processBatch"} /\ op.ret \in {"result", "rejected"}

\* C4: when a batch ends, every invalid point of it was counted as an error,
\* every valid point of it was emitted as data-processed (also after an
\* invalid one), and the processedCount of batch-processed is the batch size
\* minus the number of errors.
C4_InvalidPoints ==
    BatchEnded(lastOp) =>
        LET r == lastOp.result
        IN  /\ r.errors >= Len(r.batch) - Len(ValidIds(r.batch))
            /\ r.emitted = ValidIds(r.batch)
            /\ r.processedCount = Len(r.batch) - r.errors

\* C5: with the heap at or above the ceiling addDataPoint returns false, emits
\* memory-warning and no queue-full, and leaves the queue unchanged, whatever
\* the length of the queue.
C5_MemoryGuard ==
    [][ (lastOp'.op = "addDataPoint" /\ lastOp'.heap >= maxMemoryUsage)
          => /\ lastOp'.ret = "false"
             /\ Emits(lastOp', "memory-warning")
             /\ ~Emits(lastOp', "queue-full")
             /\ queue' = queue
             /\ accepted' = accepted ]_vars

\* a submission was refused at the ceiling itself while the queue had room
C5_Witness ==
    /\ lastOp.op = "addDataPoint"
    /\ lastOp.heap = maxMemoryUsage
    /\ lastOp.ret = "false"
    /\ Emits(lastOp, "memory-warning")
    /\ Len(queue) < maxQueueSize

-----------------------------------------------------------------------------
(* Properties of the window buffers *)

LastN(seq, n) == SubSeq(seq, Len(seq) - n + 1, Len(seq))

\* The step is addToWindow(w, p, c) on an existing window w holding c points
PushIntoFull(w) ==
    /\ lastPush'.op = "addToWindow"
    /\ lastPush'.windowId = w
    /\ w \in DOMAIN windows
    /\ Len(windows[w]) = lastPush'.maxSize

\* The point the step pushed into window w
PushedPoint(w) == arrivals'[w].points[Len(arrivals'[w].points)]

\* size stays at the capacity and exactly the oldest-arrived point is gone
DropsOldest(w) ==
    /\ Len(windows'[w]) = lastPush'.maxSize
    /\ windows'[w] = Append(Tail(windows[w]), PushedPoint(w))

\* CircularBuffer.push on a full ring keeps the size and drops the oldest item
RingDropsOldest ==
    (lastPush'.op = "push" /\ size = getCapacity)
      => /\ size' = getCapacity
         /\ RingContents' = Append(Tail(RingContents), pushed')

\* With a retention that never bites and every push passing the same maxSize
\* c, the window holds the last min(n, c) of the n points pushed, in order
LastPointsKept ==
    retentionPeriod = DefaultRetention =>
        \A w \in DOMAIN windows :
            arrivals[w].sameSize =>
                windows[w] = LastN(arrivals[w].points,
                                   Min(Len(arrivals[w].points), windowSizes[w]))

\* C7 as stated: every push into a window whose size equals its capacity keeps
\* size == capacity and drops exactly the oldest-arrived point; with retention
\* disabled the window holds the last min(n, c) points pushed.
C7_PushDropsOldest ==
    [][ /\ \A w \in WindowIds : PushIntoFull(w) => DropsOldest(w)
        /\ RingDropsOldest
        /\ LastPointsKept' ]_vars

\* C7 amended: a push into a window whose size equals its capacity and whose
\* oldest point is not older than the retention cutoff keeps size == capacity
\* and drops exactly the oldest-arrived point (a ring push does so always);
\* with retention disabled the window holds the last min(n, c) points pushed.
C7_FifoEviction ==
    [][ /\ \A w \in WindowIds :
             (PushIntoFull(w) /\ windows[w][1].timestamp >= now - retentionPeriod)
               => DropsOldest(w)
        /\ RingDropsOldest
        /\ LastPointsKept' ]_vars

\* one more point than the capacity was pushed and the window is still full
C7_Witness ==
    /\ lastPush.op = "addToWindow"
    /\ retentionPeriod = DefaultRetention
    /\ \E w \in DOMAIN windows :
         /\ arrivals[w].sameSize
         /\ Len(arrivals[w].points) = windowSizes[w] + 1
         /\ windows[w] = Tail(arrivals[w].points)
         /\ windowSizes[w] > 1

\* C8: for every stream the size that getWindowMetrics reports is at most the
\* capacity it reports.
C8_SizeWithinCapacity ==
    \A w \in WindowIds : getWindowMetrics(w).size <= getWindowMetrics(w).maxSize

\* C9: what the holder of a snapshot reads is what getWindow returned, whatever
\* pushes, prunes, trims and clears came later.
C9_SnapshotIsCopy == SnapshotContents = snapshot.taken

\* C10: when addToWindow returns, the head of the window (if any) is not older
\* than now - retentionPeriod.
C10_HeadWithinRetention ==
    lastPush.op = "addToWindow" =>
        LET window == windows[lastPush.windowId]
        IN  window # <<>> => window[1].timestamp >= now - retentionPeriod

-----------------------------------------------------------------------------
(* Properties of the memory tiers *)

\* a step that is a call of store or retrieve, or a sweep
MemCall == calls' = calls + 1

\* a step that takes a retrieve from its await to its return
MemResume == Len(awaiting') < Len(awaiting)

\* the entry of key in a Map that has it
EntryOf(map, key) == map[IndexOf(map, key)]

\* key has an entry in cache c that has not expired at time t
Live(c, key, t) == Has(c, key) /\ ~isExpired(EntryOf(c, key).timestamp, t)

\* C11: a retrieve(key) made after store(key, p), before the ttl has elapsed
\* since that store, with no later store to the key and fewer than
\* maxCacheSize stores to other keys in between, returns p, whatever sweeps
\* and retrieves ran in between.
C11_ReadYourWrite ==
    [][(/\ MemCall
        /\ lastMem'.op = "retrieve"
        /\ lastMem'.key \in DOMAIN written
        /\ clock - written[lastMem'.key].at < ttl
        /\ written[lastMem'.key].others < maxCacheSize)
       => lastMem'.data = written[lastMem'.key].value]_vars

\* a retrieve(key) is called when more than the ttl has elapsed since the
\* cached key was last stored or returned
ExpiredRetrieve ==
    /\ MemCall
    /\ lastMem'.op = "retrieve"
    /\ lastMem'.key \in DOMAIN touched
    /\ clock - touched[lastMem'.key] > ttl

\* C12 as stated: once the ttl has elapsed since store(key, p) with no touch of
\* the key in between, retrieve(key) returns miss.
C12_ExpiredIsMiss ==
    [][ExpiredRetrieve => lastMem'.data = undefined]_vars

\* C12: once more than the ttl has elapsed since the key was last touched,
\* retrieve(key) is not served from the cache and the entry leaves the cache;
\* it is a miss when the key is not in the persistent store, and otherwise
\* what the persistent store holds for the key.
C12_ExpiredNotServedFromCache ==
    [][ExpiredRetrieve =>
         /\ lastMem'.ret = "awaiting"
         /\ ~Has(cache', lastMem'.key)
         /\ IF Has(storage, lastMem'.key)
            THEN lastMem'.data = JSONparse(EntryOf(storage, lastMem'.key).data)
            ELSE lastMem'.data = undefined]_vars

\* an expired entry was found by a retrieve and the persistent store had the key
C12_Witness ==
    /\ lastMem.op = "retrieve"
    /\ lastMem.step = "call"
    /\ lastMem.expired
    /\ lastMem.data # undefined
    /\ Has(storage, lastMem.key)

\* C13: whenever a cache.set evicts, the entry evicted is the least recently
\* touched one of the cache, also when several entries were touched at the
\* same clock reading.
C13_EvictsLeastRecentlyTouched ==
    [][((MemCall \/ MemResume) /\ lastMem'.evicted # "none")
       => lastMem'.evicted = Head(recency)]_vars

\* C14: the cache holds at most maxCacheSize entries and the persistent store
\* at most storageMaxSize entries.
C14_TierCapacity ==
    /\ Len(cache) <= maxCacheSize
    /\ Len(storage) <= storageMaxSize

\* both tiers are full and the last store evicted from both
C14_Witness ==
    /\ Len(cache) = maxCacheSize
    /\ Len(storage) = storageMaxSize
    /\ lastMem.op = "store"
    /\ lastMem.evicted # "none"
    /\ lastMem.storageEvicted # "none"

\* C15: retrieve consults the cache first and the persistent store only on a
\* cache miss; a storage hit puts the payload back into the cache before it
\* is returned; a retrieve emits exactly one of cache-hit, storage-hit and
\* miss, the one of the tier that served it; it returns miss only when the
\* key was in neither tier.
C15_RetrievePath ==
    [][/\ (MemCall /\ lastMem'.op = "retrieve") =>
            LET key == lastMem'.key
            IN  IF Live(cache, key, clock)
                THEN /\ lastMem'.ret = EntryOf(cache, key).value
                     /\ lastMem'.events = <<"cache-hit">>
                     /\ awaiting' = awaiting
                ELSE /\ lastMem'.ret = "awaiting"
                     /\ lastMem'.events = <<>>
                     /\ awaiting' = Append(awaiting, [key |-> key, data |-> lastMem'.data])
                     /\ lastMem'.data = undefined <=> ~Has(storage, key)
                     /\ Has(storage, key) =>
                          lastMem'.data = JSONparse(EntryOf(storage, key).data)
       /\ MemResume =>
            LET key == lastMem'.key
                data == lastMem'.data
            IN  /\ \E i \in 1..Len(awaiting) : awaiting[i] = [key |-> key, data |-> data]
                /\ IF data # undefined
                   THEN /\ lastMem'.events = <<"storage-hit">>
                        /\ lastMem'.ret = data
                        /\ Has(cache', key)
                        /\ EntryOf(cache', key).value = data
                   ELSE /\ lastMem'.events = <<"miss">>
                        /\ lastMem'.ret = undefined
                        /\ cache' = cache]_vars

\* a retrieve was served by the persistent store and the key is back in the cache
C15_Witness ==
    /\ lastMem.op = "retrieve"
    /\ lastMem.step = "resume"
    /\ lastMem.events = <<"storage-hit">>
    /\ Has(cache, lastMem.key)
    /\ Has(storage, lastMem.key)

C17_CleanupRemovesOnlyExpired ==
    [][(MemCall /\ lastMem'.op = "cleanup")
       => cache' = SelectSeq(cache, LAMBDA entry : ~isExpired(entry.timestamp, clock))]_vars

\* C18: a cleanup sweep leaves the persistent store as it was.
C18_CleanupKeepsStorage ==
    [][(MemCall /\ lastMem'.op = "cleanup") => storage' = storage]_vars

\* a sweep has run while the persistent store held entries
C18_Witness ==
    /\ lastMem.op = "cleanup"
    /\ storage # <<>>

\* C19: store(key, p) always leaves p in the cache under key; it writes p to
\* the persistent store and emits data-persisted exactly when the importance
\* score is above persistenceThreshold, and otherwise leaves the persistent
\* store as it was and emits no data-persisted.
C19_PromotionToPersistence ==
    [][(MemCall /\ lastMem'.op = "store") =>
         LET key == lastMem'.key
             p == lastMem'.data
         IN  /\ Has(cache', key)
             /\ EntryOf(cache', key).value = p
             /\ IF lastMem'.score > persistenceThreshold
                THEN /\ Has(storage', key)
                     /\ EntryOf(storage', key).data = JSONstringify(p)
                     /\ Emits(lastMem', "data-persisted")
                ELSE /\ storage' = storage
                     /\ ~Emits(lastMem', "data-persisted")]_vars

\* a store with a score above the threshold has persisted its payload, in a
\* store that held another key already
C19_Witness ==
    /\ lastMem.op = "store"
    /\ lastMem.score > persistenceThreshold
    /\ Has(storage, lastMem.key)
    /\ Len(storage) > 1

-----------------------------------------------------------------------------
(* Properties of the pattern recognition engine *)

\* C20: analyzeTimeSeries on a window of fewer than minPoints points fails
\* with the insufficient-data error and computes no part of the result.
C20_InsufficientData ==
    (analysis.op = "analyzeTimeSeries" /\ Len(analysis.data) < minPoints)
        => /\ analysis.ret = "rejected"
           /\ analysis.error = InsufficientData
           /\ analysis.computed = <<>>

\* a window one point short of minPoints was rejected
C20_Witness ==
    /\ analysis.op = "analyzeTimeSeries"
    /\ Len(analysis.data) = minPoints - 1
    /\ analysis.ret = "rejected"

-----------------------------------------------------------------------------
(* Properties of the predictive engine *)

\* the values of the window the caller passed to analyzePredictive
callerValues == [k \in 1..Len(engine.data) |-> engine.data[k].value]

\* C21: forecast on a window of at least historyWindow points does not fail
\* and returns exactly forecastHorizon predictions, ordered by horizon step
\* 1..forecastHorizon; on a shorter window it fails with the insufficient-data
\* error and returns no prediction
C21_ForecastLength ==
    forecastRun.status # "idle" =>
        IF Len(engine.data) >= historyWindow
        THEN /\ forecastRun.status # "rejected"
             /\ forecastRun.status = "fulfilled" =>
                    /\ Len(forecastRun.predictions) = forecastHorizon
                    /\ \A k \in 1..forecastHorizon :
                           forecastRun.predictions[k].horizon = k
             /\ engine.status = "result" =>
                    engine.predictions = forecastRun.predictions
        ELSE /\ forecastRun.status = "rejected"
             /\ forecastRun.error = InsufficientHistory
             /\ forecastRun.predictions = <<>>
             /\ engine.status # "result"

C21_Witness ==
    /\ Len(engine.data) = historyWindow
    /\ forecastRun.status = "fulfilled"
    /\ engine.status = "result"
    /\ Len(engine.predictions) = forecastHorizon

\* C22: analyzeRisk and predictTrend on a window shorter than historyWindow
\* fail with the insufficient-data error: neither returns its metrics and
\* neither fails with another error
C22_ShortWindowRejected ==
    (engine.status # "idle" /\ Len(engine.data) < historyWindow) =>
        /\ engine.risk.threw /\ engine.risk.error = InsufficientHistory
        /\ engine.trend.threw /\ engine.trend.error = InsufficientHistory

\* C23: when one estimator fails during a step, the forecast is not aborted:
\* on a window of at least historyWindow points it still returns its
\* forecastHorizon predictions
C23_EstimatorFailureIsolated ==
    (faulty # {} /\ forecastRun.status # "idle"
        /\ Len(engine.data) >= historyWindow) =>
        /\ forecastRun.status # "rejected"
        /\ forecastRun.status = "fulfilled" =>
               Len(forecastRun.predictions) = forecastHorizon

\* C24: the forecast steps are sequential and auto-regressive: the window of
\* step i+1 exists only once steps 1..i have given their predictions, and it
\* is the last historyWindow - i values of the caller's window followed by
\* the outputs of steps 1..i, so that it keeps the length historyWindow; the
\* caller's window keeps its values
C24_AutoRegressiveWindow ==
    forecastRun.status \in {"awaiting", "fulfilled"} =>
        /\ Len(forecastRun.used) <= forecastHorizon
        /\ Len(forecastRun.used) =
               IF forecastRun.status = "awaiting"
               THEN Len(forecastRun.predictions) + 1
               ELSE Len(forecastRun.predictions)
        /\ \A k \in 1..Len(forecastRun.used) :
               /\ Len(forecastRun.used[k]) = historyWindow
               /\ forecastRun.used[k] =
                      sliceLast(callerValues, historyWindow - (k - 1))
                          \o [j \in 1..(k - 1) |-> forecastRun.predictions[j].value]
        /\ \A k \in 1..Len(engine.data) :
               engine.data[k] = Series(Len(engine.data), "flat")[k]
               \/ engine.data[k] = Series(Len(engine.data), "up")[k]
               \/ engine.data[k] = Series(Len(engine.data), "down")[k]
               \/ engine.data[k] = Series(Len(engine.data), "wave")[k]

C24_Witness ==
    /\ forecastRun.status = "awaiting"
    /\ Len(forecastRun.used) = 3
    /\ Len(engine.data) > historyWindow
    /\ forecastRun.used[3][historyWindow] = forecastRun.predictions[2].value
    /\ forecastRun.used[3][1] = callerValues[Len(engine.data) - historyWindow + 3]

-----------------------------------------------------------------------------
(* Properties of the anomaly detector *)

\* the indices (from 0) of the anomalies detect returned
indicesOf(anomalies) == {anomalies[k].index : k \in 1..Len(anomalies)}

\* C25: index i is flagged exactly when |x_i - median(x)| exceeds
\* threshold * sensitivityFactor * MAD(x), where MAD(x) is the median of the
\* absolute deviations of the whole series, whatever the order of the values
C25_FlaggedByMAD ==
    detection.status = "returned" =>
        LET data == detection.data
            median == calculateMedian(sortAscending(data))
            deviations == [i \in 1..Len(data) |-> Abs(2 * data[i] - median)]
            mad == calculateMedian(sortAscending(deviations))
        IN  indicesOf(detection.anomalies) =
                IF data = <<>>
                THEN {}
                ELSE {i \in 0..(Len(data) - 1) :
                         200 * deviations[i + 1] > threshold * sensitivityFactor * mad}

C27_ZeroMADExample ==
    (detection.status = "returned" /\ detection.data = <<10, 10, 10, 10, 100>>) =>
        /\ indicesOf(detection.anomalies) = {4}
        /\ Len(detection.anomalies) = 1
        /\ detection.anomalies[1].severity = "high"

C27_Witness ==
    /\ detection.status = "returned"
    /\ detection.data = <<10, 10, 10, 10, 100>>
    /\ calculateMAD(detection.data).mad = 0
    /\ Len(detection.anomalies) = 1
    /\ detection.anomalies[1].index = 4

-----------------------------------------------------------------------------
(* Properties of the correlation analyzer *)

\* the absolute correlation of the two series of the call at a lag
absAt(lag) ==
    absCorrelation(correlationAt(correlated.series1, correlated.series2, lag))

\* the coefficient is 1.0
isOne(coefficient) ==
    coefficient.num > 0 /\ coefficient.num * coefficient.num = coefficient.den

\* C28: analyzeCorrelation reports a lag in 0..maxLag whose absolute
\* correlation no lag in 0..maxLag exceeds, the smallest of the lags that
\* attain it, and the coefficient it reports is the correlation at that lag
C28_LagSelection ==
    correlated.status = "returned" =>
        LET best == correlated.result.lag
        IN  /\ best \in 0..maxLag
            /\ \A lag \in 0..maxLag : ~greater(absAt(lag), absAt(best))
            /\ (\E lag \in 0..maxLag : ~isNaN(absAt(lag))) => ~isNaN(absAt(best))
            /\ \A lag \in 0..(best - 1) : greater(absAt(best), absAt(lag))
            /\ correlated.result.coefficient =
                   correlationAt(correlated.series1, correlated.series2, best)

\* C29: for identical series the lag search returns lag 0 with coefficient 1.0
C29_SelfCorrelation ==
    (correlated.status = "returned" /\ correlated.series1 = correlated.series2) =>
        /\ correlated.result.lag = 0
        /\ isOne(correlated.result.coefficient)

-----------------------------------------------------------------------------
(* Properties of the trend analysis *)

\* the maximal runs of same-direction steps of the trend series of the call,
\* each as the pair of its first and last index (from 0)
trendRuns ==
    LET trend == trendCall.trend
        last == Len(trend) - 1
    IN  {run \in (1..last) \X (1..last) :
            /\ run[1] <= run[2]
            /\ \A i \in run[1]..run[2] : direction(trend, i) = direction(trend, run[1])
            /\ run[1] = 1 \/ direction(trend, run[1] - 1) # direction(trend, run[1])
            /\ run[2] = last \/ direction(trend, run[2] + 1) # direction(trend, run[2])}

\* C30: every maximal run of same-direction steps of the trend series, the
\* final one included, becomes exactly one trend Pattern whose
\* startIndex..endIndex spans the run, so that a trend that never changes
\* direction yields exactly one Pattern
C30_EveryRunOnePattern ==
    trendCall.status = "returned" =>
        /\ Len(trendCall.patterns) = Cardinality(trendRuns)
        /\ \A run \in trendRuns :
               \E k \in 1..Len(trendCall.patterns) :
                   /\ trendCall.patterns[k].startIndex = run[1]
                   /\ trendCall.patterns[k].endIndex = run[2]

-----------------------------------------------------------------------------
(* Conservation of the points of the stream processor *)

\* number of points the ticks have dequeued so far: those handed to
\* processDataPoint and those a running batch still holds
dequeuedSoFar ==
    Len(processedLog)
        + sum([i \in 1..Len(running) |-> Len(running[i].batch) - running[i].next])

\* how often the point numbered id is in the queue, in the log of the points
\* handed to processDataPoint, or still held by a running batch
occurrences(id) ==
    Cardinality({k \in 1..Len(queue) : queue[k].id = id})
        + Cardinality({k \in 1..Len(processedLog) : processedLog[k] = id})
        + sum([i \in 1..Len(running) |->
                  Cardinality({k \in (running[i].next + 1)..Len(running[i].batch) :
                                  running[i].batch[k].id = id})])

\* C38: no step loses or duplicates an accepted point: what a step accepts is
\* what it adds to the queue, to the points dequeued by ticks and to the
\* points removed by clearQueue together, and no point is in two of these
\* places or twice in one; when a batch completes, metrics.processedCount +
\* metrics.errorCount is the number of points dequeued so far; a point
\* accepted while a batch is running goes to the queue and not into that batch
C38_Conservation ==
    [][/\ accepted' - accepted =
              (Len(queue') - Len(queue)) + (dequeuedSoFar' - dequeuedSoFar)
                  + (IF lastOp'.op = "clearQueue" THEN Len(queue) ELSE 0)
       /\ \A id \in 1..accepted' : occurrences(id)' <= 1
       /\ \A id \in 1..accepted : occurrences(id)' <= occurrences(id)
       /\ (lastOp'.op \in {"tick", "processBatch"}
              /\ lastOp'.ret \in {"result", "rejected"}) =>
              metrics'.processedCount + metrics'.errorCount = dequeuedSoFar'
       /\ (lastOp'.op = "addDataPoint" /\ accepted' = accepted + 1) =>
              /\ queue' = Append(queue, queue'[Len(queue')])
              /\ queue'[Len(queue')].id = accepted'
              /\ running' = running
              /\ \A i \in 1..Len(running) : \A k \in 1..Len(running[i].batch) :
                     running[i].batch[k].id # accepted'
       /\ \A i \in 1..Len(running) :
              (Len(running') = Len(running)) => running'[i].batch = running[i].batch
      ]_vars

C38_Witness ==
    /\ lastOp.op = "processBatch"
    /\ lastOp.ret = "result"
    /\ metrics.processedCount + metrics.errorCount = dequeuedSoFar
    /\ metrics.errorCount >= 1
    /\ metrics.processedCount >= 1
    /\ Len(queue) >= 1
    /\ accepted > Len(queue) + dequeuedSoFar

-----------------------------------------------------------------------------
(* Correlation of series of unequal length *)

\* the Pearson correlation of the two series both truncated to their common
\* length, the means taken over the truncated series
pearsonTruncated(series1, series2) ==
    LET n == Min(Len(series1), Len(series2))
    IN  calculateCorrelation(SubSeq(series1, 1, n), SubSeq(series2, 1, n))

\* the two correlations are the same number, or both undefined
sameCorrelation(x, y) ==
    IF isNaN(x) \/ isNaN(y)
    THEN isNaN(x) /\ isNaN(y)
    ELSE /\ (x.num > 0) = (y.num > 0)
         /\ (x.num < 0) = (y.num < 0)
         /\ x.num * x.num * y.den = y.num * y.num * x.den

\* C39: for two series of different lengths, the correlation taken at each
\* lag, the reported one included, is the Pearson correlation of the two
\* lagged series truncated to their common length, with the means taken over
\* the truncated series only
C39_TruncatedCorrelation ==
    (correlated.status = "returned"
        /\ Len(correlated.series1) # Len(correlated.series2)) =>
        /\ \A lag \in 0..maxLag :
               sameCorrelation(
                   correlationAt(correlated.series1, correlated.series2, lag),
                   pearsonTruncated(
                       slice(correlated.series1, lag, Len(correlated.series1)),
                       slice(correlated.series2, 0,
                             Max(Len(correlated.series2) - lag, 0))))
        /\ sameCorrelation(
               correlated.result.coefficient,
               pearsonTruncated(
                   slice(correlated.series1, correlated.result.lag,
                         Len(correlated.series1)),
                   slice(correlated.series2, 0,
                         Max(Len(correlated.series2) - correlated.result.lag, 0))))

-----------------------------------------------------------------------------
(* Overwrites and stale reads of the memory manager *)

\* C36: store(key, p) for a key that is in the cache replaces the payload of
\* that key and removes no other entry, also when the cache holds
\* maxCacheSize entries
C36_OverwriteEvictsNothing ==
    [][(/\ MemCall
        /\ lastMem'.op = "store"
        /\ Has(cache, lastMem'.key))
       => /\ KeysOf(cache') = KeysOf(cache)
          /\ EntryOf(cache', lastMem'.key).value = lastMem'.data
          /\ \A key \in KeysOf(cache) \ {lastMem'.key} :
                 EntryOf(cache', key) = EntryOf(cache, key)]_vars

\* C37: retrieve(key) returns a miss or the payload of the most recent
\* store(key, .), as it was passed or as the persistent store gives it back,
\* never the payload of an earlier store of the key
C37_NoStaleRead ==
    [][(/\ MemCall
        /\ lastMem'.op = "retrieve")
       => \/ lastMem'.data = undefined
          \/ /\ lastMem'.key \in DOMAIN written
             /\ lastMem'.data \in
                    {written[lastMem'.key].value,
                     JSONparse(JSONstringify(written[lastMem'.key].value))}]_vars

-----------------------------------------------------------------------------
(* The persistence tier of a manager constructed with the defaults *)

\* C40: with the persistence threshold left to its default 100, which also
\* stands in for a configured 0, and importance scores below 100, no store
\* writes to the persistent store: its size stays 0, data-persisted and
\* storage-hit are never emitted, and every key is cached only or absent
C40_NothingPersistedUnderDefaults ==
    /\ Len(storage) = 0
    /\ persisted = <<>>
    /\ \A k \in 1..Len(lastMem.events) :
           lastMem.events[k] \notin {"data-persisted", "storage-hit"}
    /\ \A key \in Keys : ~Has(storage, key)
    /\ \A i \in 1..Len(awaiting) : awaiting[i].data = undefined

C40_Witness ==
    /\ storageConfig.persistenceThreshold = defaultPersistenceThreshold
    /\ lastMem.op = "store"
    /\ lastMem.score = maxImportance
    /\ Has(cache, lastMem.key)
    /\ ~Has(storage, lastMem.key)
    /\ Len(cache) = maxCacheSize
    /\ calls = MaxCalls

-----------------------------------------------------------------------------
(* Properties of withRetry *)

\* the operation's invocations so far: the settled ones and the awaited one
invocations ==
    Len(retry.outcomes) + (IF retry.status = "operation" THEN 1 ELSE 0)

\* the error the k-th attempt failed with
errorOf(k) == [kind |-> retry.outcomes[k], attempt |-> k]

\* C34: withRetry invokes the operation at most maxAttempts times; it
\* resolves with the value of the first attempt that succeeds and invokes
\* nothing after it; once maxAttempts attempts in a row have failed it
\* rejects with the error of the last of them; and every call settles
C34_BoundedRetry ==
    /\ [](/\ invocations <= retry.options.maxAttempts
          /\ \A k \in 1..(invocations - 1) : retry.outcomes[k] # "ok"
          /\ (Len(retry.outcomes) > 0 /\ retry.outcomes[Len(retry.outcomes)] = "ok")
                 => /\ retry.status = "resolved"
                    /\ retry.settled = [kind |-> "value",
                                        attempt |-> Len(retry.outcomes)]
          /\ retry.status = "resolved"
                 => /\ Len(retry.outcomes) > 0
                    /\ retry.outcomes[Len(retry.outcomes)] = "ok"
          /\ (/\ Len(retry.outcomes) > 0
              /\ Len(retry.outcomes) = retry.options.maxAttempts
              /\ retry.outcomes[Len(retry.outcomes)] # "ok")
                 => /\ retry.status = "rejected"
                    /\ retry.settled = errorOf(retry.options.maxAttempts))
    /\ (retry.status \in {"operation", "waiting"}
            ~> retry.status \in {"resolved", "rejected"})

\* maxAttempts attempts, more than one, failed in a row and the call rejected
C34_Witness ==
    /\ retry.status = "rejected"
    /\ retry.options.maxAttempts > 1
    /\ Len(retry.outcomes) = retry.options.maxAttempts

RECURSIVE power(_, _)
power(base, exponent) ==
    IF exponent = 0 THEN 1 ELSE base * power(base, exponent - 1)

\* the failed attempts after which withRetry is to wait
retried ==
    {k \in 1..Len(retry.outcomes) :
        /\ retry.outcomes[k] # "ok"
        /\ k < retry.options.maxAttempts
        /\ shouldRetry(retry.options.shouldRetry, errorOf(k))}

\* C35: the wait after the k-th failed attempt, k < maxAttempts, is
\* delayMs * backoffFactor^(k-1) and attempt k+1 is invoked after it; there
\* is no wait after the failure of attempt maxAttempts; and an error that
\* shouldRetry refuses rejects the call with that error at once, with no
\* wait and no further attempt
C35_ExponentialBackoff ==
    /\ \A k \in 1..Len(retry.waits) :
           retry.waits[k] =
               retry.options.delayMs * power(retry.options.backoffFactor, k - 1)
    /\ Len(retry.waits) = Cardinality(retried)
    /\ retry.status \in {"operation", "waiting"}
           => Len(retry.waits) = Len(retry.outcomes)
    /\ \A k \in 1..Len(retry.outcomes) :
           (\/ /\ retry.outcomes[k] # "ok"
               /\ ~shouldRetry(retry.options.shouldRetry, errorOf(k))
            \/ /\ retry.outcomes[k] # "ok"
               /\ k = retry.options.maxAttempts)
               => /\ k = Len(retry.outcomes)
                  /\ retry.status = "rejected"
                  /\ retry.settled = errorOf(k)
                  /\ Len(retry.waits) = k - 1

\* two waits, the second longer than the first, and the call rejected by
\* the failure of the attempt after them
C35_Witness ==
    /\ retry.status = "rejected"
    /\ Len(retry.waits) = 2
    /\ retry.waits[2] > retry.waits[1]
    /\ Len(retry.outcomes) = 3

-----------------------------------------------------------------------------
(* Properties of the trend indicator and of the forecast bounds *)

\* the value top / bottom of a quotient of two small doubles
valueOf(q) == times(q.top, divide(q.bottom.den, q.bottom.num))

\* C31: on the linearly increasing series 1, 2, ..., 100 predict reports
\* direction up with a strength above 0
C31_LinearSeriesUp ==
    (/\ indicator.status = "returned"
     /\ indicator.values = [i \in 1..historyWindow |-> i])
        => /\ indicator.result.direction = "up"
           /\ quotientGreater(indicator.result.strength, divide(0, 1))

\* strengthWeight * normalizedStrength + durationWeight * normalizedDuration
\* in [0, 1]: the strength term set against what the duration term leaves
confidenceInUnitInterval(confidence) ==
    LET durationTerm ==
            times(valueOf(confidence.normalizedDuration),
                  divide(confidence.durationWeight, 10))
        strengthWeight == divide(confidence.strengthWeight, 10)
        room(limit) ==
            times(minus(divide(limit, 1), durationTerm),
                  divide(strengthWeight.den, strengthWeight.num))
    IN  /\ confidence.normalizedStrength.top.kind # "nan"
        /\ confidence.normalizedDuration.top.kind # "nan"
        /\ ~quotientLess(confidence.normalizedStrength, room(0))
        /\ ~quotientGreater(confidence.normalizedStrength, room(1))

\* C33: the indicator predict returns has a direction among up, down and
\* sideways, a strength in [0, 1], a confidence in [0, 1] and a duration
\* that is a whole number from 0 to the number of returns
C33_IndicatorRanges ==
    (indicator.status = "returned" /\ ~indicator.result.threw)
        => /\ indicator.result.direction \in {"up", "down", "sideways"}
           /\ indicator.result.duration \in 0..(Len(indicator.values) - 1)
           /\ confidenceInUnitInterval(indicator.result.confidence)
           /\ indicator.result.strength.top.kind = "finite"
           /\ ~quotientLess(indicator.result.strength, divide(0, 1))
           /\ ~quotientGreater(indicator.result.strength, divide(1, 1))

\* C32: the weighted point forecast of a step lies within the bounds of the
\* step, lower <= value <= upper, the bounds being the mean of the three
\* estimator outputs minus and plus 1.96 times their standard deviation
C32_ForecastWithinBounds ==
    ensemble.status = "returned"
        => LET forecasts == ensemble.forecasts
               mean == ensemble.bounds.upper.mean
               variance == ensemble.bounds.upper.variance
               square(x) == times(x, x)
           IN  /\ surdAtMost(ensemble.bounds.lower, ensemble.value)
               /\ surdAtLeast(ensemble.bounds.upper, ensemble.value)
               /\ Len(forecasts) = 3
               /\ times(mean, divide(3, 1))
                      = divide(forecasts[1] + forecasts[2] + forecasts[3], 1)
               /\ times(variance, divide(3, 1))
                      = plus(plus(square(minus(divide(forecasts[1], 1), mean)),
                                  square(minus(divide(forecasts[2], 1), mean))),
                             square(minus(divide(forecasts[3], 1), mean)))
               /\ ensemble.bounds.lower.mean = mean
               /\ ensemble.bounds.lower.variance = variance
               /\ ensemble.bounds.upper.z = divide(196, 100)
               /\ ensemble.bounds.lower.z = divide(0 - 196, 100)

\* a step whose estimators gave 96, 98 and 102, as they do to the nearest
\* whole number on the series 1..100: the point forecast is 98.4
C32_Witness ==
    /\ ensemble.status = "returned"
    /\ ensemble.forecasts = <<96, 98, 102>>
    /\ ensemble.value = divide(984, 10)
    /\ lessThan(ensemble.value, ensemble.bounds.upper.mean)

=============================================================================
